---- MODULE Spec2Model ----
(***************************************************************************)
(* Adaptive traffic-signal simulation: the per-intersection step           *)
(* (src/simulation/intersection.py) and the network of intersections that  *)
(* forwards arrivals and decisions to them                                 *)
(* (src/simulation/multi_intersection.py).                                 *)
(*                                                                         *)
(* Durations are real numbers in the program (the neural controller        *)
(* returns 4.0 + 12.0 * p).  Here a duration is an integer number of ticks *)
(* of 1/Resolution second, so that Python's int(service_rate * duration),  *)
(* which truncates toward zero, is modelled as a truncation and not as the *)
(* identity.                                                               *)
(***************************************************************************)
EXTENDS Integers, Sequences, FiniteSets, TLC

(* ------------------------------ bounds --------------------------------- *)

\* Largest number of calls made on a controller that is driven on its own.
MaxCalls == 3

\* --steps of a run: the number of iterations of run_once's loop.
MaxSteps == 3

\* A run with the Q-learning controller is followed for this many decides
\* (and as many learns) at most: Q-values are exact and their numerators grow
\* by a factor of 125 with every learn.
MaxDecides == 4

\* Largest number of calls made on a Q-learning controller that is followed
\* over many decides, and the largest number of learns among them.
MaxLongCalls == 21
MaxLongLearns == 1

\* Largest number of gradient steps a neural controller takes when its
\* weights are followed by sign.
MaxGradientSteps == 1

\* Largest number of vehicles one arrival record brings to one approach.
MaxArrivals == 1

\* A step is taken only while no queue would exceed this length.
MaxQueue == 3

\* Ticks per second of a duration.
Resolution == 2

(* ------------------------- program constants --------------------------- *)

\* random.Random(123): its first 13 values are all above 0.03, the 14th is
\* 0.0017, so the first decide of a QLearningController that explores is the
\* 14th.
FirstExploringDecide == 13

\* max(self.epsilon_min, self.epsilon * self.epsilon_decay) with
\* epsilon = 0.03, epsilon_min = 0.01, epsilon_decay = 0.998:
\* 0.03 * 0.998^548 = 0.010015 is above the minimum and
\* 0.03 * 0.998^549 = 0.009995 is below it, so the 549th decay is the first
\* that the minimum replaces.
FloorDecays == 549

\* self.rng = random.Random(123) of a QLearningController and
\* rng = random.Random(42) of a NeuralController
ExplorationSeed == 123
WeightSeed == 42

\* --intersections default
NumIntersections == 2

\* max(5, decision["duration"]) on an emergency step
EmergencyMinDuration == 5

\* int(0.6 * log["throughput"]) = floor(InflowNum * throughput / InflowDen)
InflowNum == 6
InflowDen == 10

\* service_rate values (the default 1 and a faster junction)
ServiceRates == {1, 2}

Phases == {"NS", "EW"}

\* The fixed note _apply_emergency returns on an override.
OverrideMsg == "Emergency override: granted immediate green to priority approach."

(* ------------------------------ inputs --------------------------------- *)

\* Non-negative durations, in ticks: 0 s, 1 s + one tick (not a whole number
\* of seconds), and 6 s (above the emergency minimum).
Durations == {0, Resolution + 1, 6 * Resolution}

\* Negative durations, which no controller of the repository returns:
\* -1 tick (a fraction of a second), -1 s - one tick, -3 s.
NegativeDurations == {-1, -(Resolution + 1), -(3 * Resolution)}

\* A decision is a dict: "duration" and "explanation" always, "target_phase"
\* only when the controller chose a phase.
DecisionsOver(D) ==
    [duration : D, explanation : {"ctl"}]
        \cup [duration : D, explanation : {"ctl"}, target_phase : Phases]

Decisions == DecisionsOver(Durations)

NegativeDecisions == DecisionsOver(NegativeDurations)

\* Decisions as the controllers of the repository build them: no target phase.
ControllerDecisions == [duration : {0, 6 * Resolution}, explanation : {"ctl"}]

\* The arrival records fed to the network: north-south traffic only.
NetworkArrivalRecords ==
    [arrivals_ns : {0, MaxArrivals}, arrivals_ew : {0}, emergency : BOOLEAN]

\* One arrival record of the stream.
ArrivalRecords ==
    [arrivals_ns : 0..MaxArrivals, arrivals_ew : 0..MaxArrivals,
     emergency : BOOLEAN]

(* ------------------------------- state --------------------------------- *)

VARIABLES
    service_rate,    \* Intersection.service_rate, shared by all intersections
    intersections,   \* id -> [queue_ns, queue_ew, phase]
    before,          \* the intersections as they were when the last call began
    raw_arrivals,    \* the arrival records as passed to the last call
    arrivals,        \* the caller's arrival records as the last call left them
    decisions,       \* the decisions passed to the last call
    logs,            \* id -> log record returned by the last call
    rewards,         \* id -> reward returned by the last call (in tenths)
    downstream_inflows, \* the accumulator's value when the last network step returned
    controller,      \* the controller object: its kind and its attributes
    call,            \* the last call made on the controller: its arguments, the
                     \* controller as it was before (self), what it returned, and
                     \* the keys learn has written to so far (learned)
    calls,           \* how many calls have been made on a controller driven on
                     \* its own
    run              \* run_once's locals: the step reached, log_rows, last_states

\* the simulated intersections and what their last call saw and returned
simvars == <<service_rate, intersections, before, raw_arrivals, arrivals,
             decisions, logs, rewards, downstream_inflows>>

\* the controller and the record of the calls made on it
ctlvars == <<controller, call, calls>>

vars == <<service_rate, intersections, before, raw_arrivals, arrivals,
          decisions, logs, rewards, downstream_inflows,
          controller, call, calls, run>>

(* ------------------------- Intersection ------------------------------- *)

Min(a, b) == IF a <= b THEN a ELSE b

Max(a, b) == IF a >= b THEN a ELSE b

\* Mutant of IntTrunc: rounds up instead of truncating.
IntCeil(num, den) == -((-num) \div den)

\* Python's int() of the rational num/den (den > 0): truncation toward zero.
IntTrunc(num, den) ==
    IF num >= 0 THEN num \div den ELSE -((-num) \div den)

\* Intersection.__post_init__
NewIntersection == [queue_ns |-> 0, queue_ew |-> 0, phase |-> "NS"]

\* Mutant of EmergencyPhase: a tie goes to EW (> for >=).
EmergencyPhaseTieEW(self) ==
    IF self.queue_ns > self.queue_ew THEN "NS" ELSE "EW"

\* Mutant of EmergencyPhase: an emergency always gives green to NS.
EmergencyPhaseNS(self) == "NS"

\* Intersection._apply_emergency: the phase it leaves in self.phase
EmergencyPhase(self) ==
    IF self.queue_ns >= self.queue_ew THEN "NS" ELSE "EW"

ApplyEmergency(self, emergency) ==
    IF ~emergency
    THEN [self |-> self, overridden |-> FALSE, msg |-> ""]
    ELSE [self |-> [self EXCEPT !.phase = EmergencyPhase(self)],
          overridden |-> TRUE, msg |-> OverrideMsg]

\* Mutant of EffectiveDuration: the emergency minimum is forgotten.
EffectiveDurationNoMin(decision, overridden) == decision.duration

\* duration = decision["duration"] if not overridden else max(5, ...)
EffectiveDuration(decision, overridden) ==
    IF ~overridden THEN decision.duration
    ELSE Max(EmergencyMinDuration * Resolution, decision.duration)

HasTarget(decision) == "target_phase" \in DOMAIN decision

\* Mutant of PhaseUsed: decision.get("target_phase") without the membership
\* test, which is None when the decision carries no target phase.
PhaseUsedGet(self, decision, overridden) ==
    IF ~overridden
    THEN (IF HasTarget(decision) THEN decision.target_phase ELSE "None")
    ELSE self.phase

\* the phase given green in this step
PhaseUsed(self, decision, overridden) ==
    IF HasTarget(decision) /\ ~overridden
    THEN decision.target_phase ELSE self.phase

\* Mutant of Served: the min with the queue length is forgotten.
ServedNoMin(queue, rate, duration) == IntTrunc(rate * duration, Resolution)

\* Mutant of Served: the whole queue is served whatever the duration.
ServedAll(queue, rate, duration) == queue

\* min(queue, int(self.service_rate * duration))
Served(queue, rate, duration) ==
    Min(queue, IntTrunc(rate * duration, Resolution))

\* Mutant of Remaining: the approach that has green is emptied.
RemainingNone(queue, served) == IF served > 0 THEN 0 ELSE queue

\* self.queue_ns -= served_ns, self.queue_ew -= served_ew; the approach
\* without green has served 0 (self.queue_ew += 0)
Remaining(queue, served) == queue - served

\* Mutant of NextPhase: the phase is never flipped.
NextPhaseKeep(self, decision, emergency, phase_used) ==
    IF HasTarget(decision) THEN phase_used ELSE self.phase

\* Mutant of NextPhase: the phase is flipped on emergency steps too.
NextPhaseFlipAlways(self, decision, emergency, phase_used) ==
    IF HasTarget(decision) THEN phase_used
    ELSE (IF self.phase = "NS" THEN "EW" ELSE "NS")

\* Mutant of NextPhase: the decision's target is stored, not the phase used.
NextPhaseTarget(self, decision, emergency, phase_used) ==
    IF HasTarget(decision) THEN decision.target_phase
    ELSE IF ~emergency THEN (IF self.phase = "NS" THEN "EW" ELSE "NS")
    ELSE self.phase

\* the phase stored for the next step
NextPhase(self, decision, emergency, phase_used) ==
    IF HasTarget(decision) THEN phase_used
    ELSE IF ~emergency THEN (IF self.phase = "NS" THEN "EW" ELSE "NS")
    ELSE self.phase

\* Mutant of Stops: the vehicles of the approach that has green are counted.
StopsOfGreen(self, phase_used) ==
    IF phase_used = "NS" THEN self.queue_ns ELSE self.queue_ew

\* stops: every vehicle waiting on the approach that has no green
Stops(self, phase_used) ==
    IF phase_used = "NS" THEN self.queue_ew ELSE self.queue_ns

\* avg_wait = (queue_ns + queue_ew) / 2.0 if (queue_ns + queue_ew) else 0,
\* doubled
AvgWait2(queue_ns, queue_ew) ==
    IF queue_ns + queue_ew # 0 THEN queue_ns + queue_ew ELSE 0

\* Mutant of Reward10: the stops are not weighted by 0.3.
Reward10Unweighted(throughput, avg_wait2, stops) ==
    10 * throughput - 5 * avg_wait2 - 10 * stops

\* reward = throughput - avg_wait - 0.3 * stops, in tenths
Reward10(throughput, avg_wait2, stops) ==
    10 * throughput - 5 * avg_wait2 - 3 * stops

\* explanation = decision.get("explanation", ""), the override note appended
Explanation(decision, msg) ==
    IF msg # "" THEN <<decision.explanation, msg>> ELSE <<decision.explanation>>

\* Intersection.step: the intersection after the call, the log and the reward.
\* avg_wait_proxy is kept doubled and the reward in tenths:
\* reward = throughput - avg_wait - 0.3 * stops.
IntersectionStep(self0, rate, arr, decision) ==
    LET arrived == [self0 EXCEPT !.queue_ns = @ + arr.arrivals_ns,
                                 !.queue_ew = @ + arr.arrivals_ew]
        em == ApplyEmergency(arrived, arr.emergency)
        self1 == em.self
        duration == EffectiveDuration(decision, em.overridden)
        phase_used == PhaseUsed(self1, decision, em.overridden)
        served_ns == IF phase_used = "NS"
                     THEN Served(self1.queue_ns, rate, duration) ELSE 0
        served_ew == IF phase_used = "NS"
                     THEN 0 ELSE Served(self1.queue_ew, rate, duration)
        queue_ns == Remaining(self1.queue_ns, served_ns)
        queue_ew == Remaining(self1.queue_ew, served_ew)
        stops == Stops(self1, phase_used)
        throughput == served_ns + served_ew
        avg_wait2 == AvgWait2(queue_ns, queue_ew)
    IN  [self |-> [queue_ns |-> queue_ns, queue_ew |-> queue_ew,
                   phase |-> NextPhase(self1, decision, arr.emergency, phase_used)],
         log |-> [phase_used |-> phase_used,
                  duration |-> duration,
                  queue_ns |-> queue_ns,
                  queue_ew |-> queue_ew,
                  served_ns |-> served_ns,
                  served_ew |-> served_ew,
                  throughput |-> throughput,
                  avg_wait_proxy2 |-> avg_wait2,
                  stops |-> stops,
                  emergency |-> arr.emergency,
                  explanation |-> Explanation(decision, em.msg)],
         reward10 |-> Reward10(throughput, avg_wait2, stops)]

\* The bound of the model: no queue longer than MaxQueue during the call.
WithinBound(self0, arr, out) ==
    /\ self0.queue_ns + arr.arrivals_ns <= MaxQueue
    /\ self0.queue_ew + arr.arrivals_ew <= MaxQueue
    /\ out.self.queue_ns <= MaxQueue
    /\ out.self.queue_ew <= MaxQueue

(* --------------------- a standalone Intersection ----------------------- *)

Empty == [i \in {} |-> 0]

\* no controller has been built, no call made, no run started
NoController == [name |-> "none"]
NoCall == [op |-> "none", learned |-> {}]
NoRun == [controller_name |-> "none"]

InitWith(ids) ==
    /\ controller = NoController
    /\ call = NoCall
    /\ calls = 0
    /\ run = NoRun
    /\ service_rate \in ServiceRates
    /\ intersections = [i \in ids |-> NewIntersection]
    /\ before = [i \in ids |-> NewIntersection]
    /\ raw_arrivals = Empty
    /\ arrivals = Empty
    /\ decisions = Empty
    /\ logs = Empty
    /\ rewards = Empty
    /\ downstream_inflows = Empty

\* Intersection(0, service_rate)
InitIntersection == InitWith({0})

\* what intersections[0].step(arr, decision) does to the simulation
StepEffect(arr, decision) ==
    LET out == IntersectionStep(intersections[0], service_rate, arr, decision)
    IN  /\ WithinBound(intersections[0], arr, out)
        /\ before' = intersections
        /\ intersections' = [intersections EXCEPT ![0] = out.self]
        /\ raw_arrivals' = [i \in {0} |-> arr]
        /\ arrivals' = [i \in {0} |-> arr]
        /\ decisions' = [i \in {0} |-> decision]
        /\ logs' = [i \in {0} |-> out.log]
        /\ rewards' = [i \in {0} |-> out.reward10]
        /\ UNCHANGED <<service_rate, downstream_inflows>>

\* intersections[0].step(arr, decision)
Step(arr, decision) ==
    /\ StepEffect(arr, decision)
    /\ UNCHANGED <<ctlvars, run>>

NextIntersection == \E arr \in ArrivalRecords, decision \in Decisions : Step(arr, decision)

\* A single intersection stepped with the decisions a controller may return.
SpecIntersection == InitIntersection /\ [][NextIntersection]_vars

NextNegative ==
    \E arr \in ArrivalRecords, decision \in Decisions \cup NegativeDecisions :
        Step(arr, decision)

\* A single intersection stepped with any decision, negative durations included.
SpecNegative == InitIntersection /\ [][NextNegative]_vars

(* -------------------- MultiIntersectionNetwork ------------------------- *)

Ids == 0..(NumIntersections - 1)

\* MultiIntersectionNetwork.__init__
Init == InitWith(Ids)

\* Mutant of ZeroInflows: the accumulator is kept from one call to the next.
KeptInflows ==
    IF DOMAIN downstream_inflows = DOMAIN intersections
    THEN downstream_inflows
    ELSE [i \in DOMAIN intersections |-> 0]

\* downstream_inflows = [0 for _ in self.intersections]
ZeroInflows == [i \in DOMAIN intersections |-> 0]

\* First pass: arrivals[i]["arrivals_ns"] += downstream_inflows[i], in place.
FirstPass(arrs, inflows) ==
    [i \in DOMAIN arrs |-> [arrs[i] EXCEPT !.arrivals_ns = @ + inflows[i]]]

\* int(0.6 * log["throughput"])
Spillover(throughput) == (InflowNum * throughput) \div InflowDen

\* len(self.intersections)
NetworkSize == Cardinality(DOMAIN intersections)

\* The second loop from intersection i on; acc holds the intersections, the
\* logs, the rewards and the inflow accumulator after intersections 0..i-1.
RECURSIVE StepLoop(_, _, _, _)
StepLoop(i, acc, arrs, decs) ==
    IF i = NetworkSize THEN acc
    ELSE LET out == IntersectionStep(acc.intersections[i], service_rate,
                                     arrs[i], decs[i])
             inflows == IF i + 1 < NetworkSize
                        THEN [acc.inflows EXCEPT
                                ![i + 1] = @ + Spillover(out.log.throughput)]
                        ELSE acc.inflows
         IN  StepLoop(i + 1,
                      [intersections |-> [acc.intersections EXCEPT ![i] = out.self],
                       logs |-> [acc.logs EXCEPT ![i] = out.log],
                       rewards |-> [acc.rewards EXCEPT ![i] = out.reward10],
                       inflows |-> inflows],
                      arrs, decs)

\* What MultiIntersectionNetwork.step(arrs, decs) leaves and returns: the
\* caller's arrival records after the first pass, the intersections, the
\* logs, the rewards and the inflow accumulator.
NetworkResult(arrs, decs) ==
    LET applied == FirstPass(arrs, ZeroInflows)
        acc == StepLoop(0, [intersections |-> intersections,
                            logs |-> [i \in DOMAIN intersections |-> <<>>],
                            rewards |-> [i \in DOMAIN intersections |-> 0],
                            inflows |-> ZeroInflows],
                        applied, decs)
    IN  [arrivals |-> applied,
         intersections |-> acc.intersections,
         logs |-> acc.logs,
         rewards |-> acc.rewards,
         inflows |-> acc.inflows]

\* the network's part of the state after MultiIntersectionNetwork.step
NetworkEffect(arrs, decs, out) ==
    /\ before' = intersections
    /\ intersections' = out.intersections
    /\ raw_arrivals' = arrs
    /\ arrivals' = out.arrivals
    /\ decisions' = decs
    /\ logs' = out.logs
    /\ rewards' = out.rewards
    /\ downstream_inflows' = out.inflows
    /\ UNCHANGED service_rate

\* MultiIntersectionNetwork.step(arrs, decs)
NetworkStep(arrs, decs) ==
    LET applied == FirstPass(arrs, ZeroInflows)
    IN  /\ \A i \in Ids :
              /\ intersections[i].queue_ns + applied[i].arrivals_ns <= MaxQueue
              /\ intersections[i].queue_ew + applied[i].arrivals_ew <= MaxQueue
        /\ NetworkEffect(arrs, decs, NetworkResult(arrs, decs))
        /\ UNCHANGED <<ctlvars, run>>

Next ==
    \E arrs \in [Ids -> NetworkArrivalRecords], decs \in [Ids -> ControllerDecisions] :
        NetworkStep(arrs, decs)

\* A network of NumIntersections intersections stepped by its driver.
Spec == Init /\ [][Next]_vars

(* ---------------------- QLearningController ---------------------------- *)

\* self.actions = [10, 12, 14], in this order
Actions == <<10, 12, 14>>

\* Mutant of ActionSet: a fourth duration can be chosen.
ActionSetWide == {10, 12, 14, 16}

ActionSet == {Actions[i] : i \in DOMAIN Actions}

\* A Q-value is the exact rational n / 125^e, e as small as possible: the
\* update old + 0.08 * (reward + 0.9 * next_best - old) equals
\* (115 * old + 9 * next_best + 10 * reward) / 125, so every value the
\* program computes is of this form when rewards are multiples of 0.1.
\* The rounding of binary floating point is not modelled.
RECURSIVE Pow125(_)
Pow125(e) == IF e = 0 THEN 1 ELSE 125 * Pow125(e - 1)

RECURSIVE Value(_, _)
Value(n, e) ==
    IF e > 0 /\ n % 125 = 0 THEN Value(n \div 125, e - 1) ELSE [n |-> n, e |-> e]

\* the numerator of v over the denominator 125^e
Lift(v, e) == v.n * Pow125(e - v.e)

\* a < b
Less(a, b) ==
    LET e == Max(a.e, b.e) IN Lift(a, e) < Lift(b, e)

\* _bucket
Bucket(x) == IF x < 4 THEN "low" ELSE IF x < 10 THEN "med" ELSE "high"

\* _state_key: the deltas are taken against self.last_queues
StateKey(self, state) ==
    <<Bucket(state.queue_ns),
      Bucket(state.queue_ew),
      IF state.queue_ns - self.last_queues.ns > 0 THEN "ns_growing" ELSE "ns_stable",
      IF state.queue_ew - self.last_queues.ew > 0 THEN "ew_growing" ELSE "ew_stable",
      state.phase,
      state.time_of_day,
      state.emergency>>

\* Mutant of AfterStateKey: the queues of the state are remembered.
AfterStateKeyRemember(self, state) ==
    [self EXCEPT !.last_queues = [ns |-> state.queue_ns, ew |-> state.queue_ew]]

\* the controller after _state_key(state): the method assigns to nothing
AfterStateKey(self, state) == self

\* Mutant of InitRow: a new entry also has a value for an action of 16
\* seconds, which decide never takes.
InitRowWide ==
    [a \in ActionSet \cup {16} |-> IF a = 12 THEN [n |-> 5, e |-> 0]
                                              ELSE [n |-> 2, e |-> 0]]

\* {a: 5.0 if a == 12 else 2.0 for a in self.actions}
InitRow == [a \in ActionSet |-> IF a = 12 THEN Value(5, 0) ELSE Value(2, 0)]

\* Mutant of EnsureState: the entry is initialised at every call.
EnsureStateAlways(q, key) ==
    [k \in DOMAIN q \cup {key} |-> IF k = key THEN InitRow ELSE q[k]]

\* _ensure_state: an entry is created only for a key that has none
EnsureState(q, key) ==
    IF key \in DOMAIN q THEN q ELSE q @@ (key :> InitRow)

\* Mutant of ArgMaxFrom: among equal maxima the last one wins.
RECURSIVE ArgMaxLast(_, _, _)
ArgMaxLast(row, i, best) ==
    IF i > Len(Actions) THEN best
    ELSE ArgMaxLast(row, i + 1,
                    IF Less(row[Actions[i]], row[best]) THEN best ELSE Actions[i])

\* max(d, key=d.get) over the dict's keys from the i-th on: a later key
\* replaces the best so far only when its value is strictly greater
RECURSIVE ArgMaxFrom(_, _, _)
ArgMaxFrom(row, i, best) ==
    IF i > Len(Actions) THEN best
    ELSE ArgMaxFrom(row, i + 1,
                    IF Less(row[best], row[Actions[i]]) THEN Actions[i] ELSE best)

\* max(self.q[key], key=self.q[key].get)
ArgMax(row) == ArgMaxFrom(row, 2, Actions[1])

\* max(self.q[next_key].values())
MaxValue(row) == row[ArgMax(row)]

\* Mutant of Updated: the next state's value is not discounted (gamma = 1).
UpdatedUndiscounted(old, reward10, next_best) ==
    LET e == Max(old.e, next_best.e)
    IN  Value(115 * Lift(old, e) + 10 * Lift(next_best, e) + reward10 * Pow125(e),
              e + 1)

\* old_value + self.alpha * (reward + self.gamma * next_best - old_value),
\* alpha = 0.08, gamma = 0.9, the reward in tenths
Updated(old, reward10, next_best) ==
    LET e == Max(old.e, next_best.e)
    IN  Value(115 * Lift(old, e) + 9 * Lift(next_best, e) + reward10 * Pow125(e),
              e + 1)

\* epsilon is 0.03 * 0.998^factors, or epsilon_min = 0.01 when floored
EpsilonStart == [floored |-> FALSE, factors |-> 0]
EpsilonMin == [floored |-> TRUE, factors |-> 0]

\* Mutant of DecayEpsilon: the product is kept whatever its size.
DecayEpsilonNoFloor(epsilon) ==
    [floored |-> FALSE, factors |-> epsilon.factors + 1]

\* _decay_epsilon: max(self.epsilon_min, self.epsilon * self.epsilon_decay)
DecayEpsilon(epsilon) ==
    IF epsilon.floored \/ epsilon.factors + 1 >= FloorDecays
    THEN EpsilonMin
    ELSE [floored |-> FALSE, factors |-> epsilon.factors + 1]

\* QLearningController.__init__.
\* last_key and last_action do not exist before the first decide.
NewQLearningController ==
    [name |-> "rl",
     q |-> Empty,
     epsilon |-> EpsilonStart,
     step_count |-> 0,
     last_queues |-> [ns |-> 0, ew |-> 0]]

\* hasattr(self, "last_key")
HasLastKey(self) == "last_key" \in DOMAIN self

\* decide(state).  explore stands for rng.random() < self.epsilon and choice
\* for rng.choice(self.actions); the generator's stream is not modelled, both
\* outcomes of the comparison are possible for some draw since
\* 0 < epsilon < 1.  Durations are returned in ticks.
QDecide(self, state, explore, choice) ==
    LET key == StateKey(self, state)
        q == EnsureState(self.q, key)
        action == IF explore THEN choice ELSE ArgMax(q[key])
        step_count == self.step_count + 1
    IN  [self |-> [name |-> "rl",
                   q |-> q,
                   epsilon |-> IF step_count % 10 = 0
                               THEN DecayEpsilon(self.epsilon)
                               ELSE self.epsilon,
                   step_count |-> step_count,
                   last_queues |-> [ns |-> state.queue_ns, ew |-> state.queue_ew],
                   last_key |-> key,
                   last_action |-> action],
         decision |-> [duration |-> action * Resolution,
                       explanation |-> IF explore THEN "RL: exploring"
                                                  ELSE "RL: exploiting"]]

\* Mutant of QLearn: the next key is computed and its entry created before
\* the test for a remembered decision.
QLearnEnsureFirst(self, reward10, next_state) ==
    LET next_key == StateKey(self, next_state)
        q == EnsureState(self.q, next_key)
    IN  IF ~HasLastKey(self) THEN [self EXCEPT !.q = q]
        ELSE [self EXCEPT !.q = [q EXCEPT ![self.last_key][self.last_action] =
                 Updated(q[self.last_key][self.last_action], reward10,
                         MaxValue(q[next_key]))]]

\* learn(state, reward, next_state); the state argument is not read
QLearn(self, reward10, next_state) ==
    IF ~HasLastKey(self) THEN self
    ELSE LET key == self.last_key
             action == self.last_action
             next_key == StateKey(self, next_state)
             q == EnsureState(self.q, next_key)
             old_value == q[key][action]
             next_best == MaxValue(q[next_key])
             updated == Updated(old_value, reward10, next_best)
         IN  [self EXCEPT !.q = [q EXCEPT ![key][action] = updated]]

(* ----------------- a standalone QLearningController -------------------- *)

\* States as observe_state returns them: both approaches short, one approach
\* of medium length, and an emergency with both approaches of medium length.
ObservedStates ==
    {[intersection |-> 0, queue_ns |-> 0, queue_ew |-> 0, phase |-> "NS",
      time_of_day |-> "morning", emergency |-> FALSE],
     [intersection |-> 0, queue_ns |-> 5, queue_ew |-> 0, phase |-> "NS",
      time_of_day |-> "morning", emergency |-> FALSE],
     [intersection |-> 0, queue_ns |-> 5, queue_ew |-> 4, phase |-> "EW",
      time_of_day |-> "morning", emergency |-> TRUE]}

\* Rewards passed to learn, in tenths: -37.0 and 0.5.
Rewards10 == {-370, 5}

\* no intersection is simulated
NoSimulation ==
    /\ service_rate = 1
    /\ intersections = Empty
    /\ before = Empty
    /\ raw_arrivals = Empty
    /\ arrivals = Empty
    /\ decisions = Empty
    /\ logs = Empty
    /\ rewards = Empty
    /\ downstream_inflows = Empty

\* QLearningController()
InitQL ==
    /\ NoSimulation
    /\ controller = NewQLearningController
    /\ call = NoCall
    /\ calls = 0
    /\ run = NoRun

\* controller.decide(state)
Decide(state, explore, choice) ==
    LET out == QDecide(controller, state, explore, choice)
    IN  /\ calls < MaxCalls
        /\ controller' = out.self
        /\ call' = [op |-> "decide", self |-> controller, state |-> state,
                    explore |-> explore, decision |-> out.decision,
                    learned |-> call.learned]
        /\ calls' = calls + 1
        /\ UNCHANGED <<simvars, run>>

\* controller.learn(state, reward, next_state)
Learn(reward10, next_state) ==
    /\ calls < MaxCalls
    /\ controller' = QLearn(controller, reward10, next_state)
    /\ call' = [op |-> "learn", self |-> controller, reward10 |-> reward10,
                next_state |-> next_state,
                learned |-> IF HasLastKey(controller)
                            THEN call.learned \cup {controller.last_key}
                            ELSE call.learned]
    /\ calls' = calls + 1
    /\ UNCHANGED <<simvars, run>>

\* controller._state_key(state), called on its own
ComputeKey(state) ==
    /\ calls < MaxCalls
    /\ controller' = AfterStateKey(controller, state)
    /\ call' = [op |-> "state_key", self |-> controller, state |-> state,
                key |-> StateKey(controller, state), learned |-> call.learned]
    /\ calls' = calls + 1
    /\ UNCHANGED <<simvars, run>>

NextQL ==
    \/ \E state \in ObservedStates : ComputeKey(state)
    \/ \E state \in ObservedStates : Decide(state, FALSE, Actions[1])
    \/ \E state \in ObservedStates, choice \in ActionSet : Decide(state, TRUE, choice)
    \/ \E reward10 \in Rewards10, next_state \in ObservedStates :
           Learn(reward10, next_state)

\* A Q-learning controller called in any order with any of the states and
\* rewards above.
SpecQL == InitQL /\ [][NextQL]_vars

(* -------------- a QLearningController over many decides --------------- *)

\* The first of the observed states, and a second one.
QuietState == CHOOSE state \in ObservedStates : state.queue_ns = 0
BusyState == CHOOSE state \in ObservedStates :
                 state.queue_ns > 0 /\ ~state.emergency

\* The number of decides after which one more decay reaches the minimum.
LongRunDecides == 10 * (FloorDecays - 1)

\* The controller after LongRunDecides decides on QuietState and no learn,
\* the last decide exploiting: the table holds the one key with its initial
\* row, epsilon has been decayed FloorDecays - 1 times.
AfterLongRun ==
    [name |-> "rl",
     q |-> (StateKey(NewQLearningController, QuietState) :> InitRow),
     epsilon |-> [floored |-> FALSE, factors |-> FloorDecays - 1],
     step_count |-> LongRunDecides,
     last_queues |-> [ns |-> QuietState.queue_ns, ew |-> QuietState.queue_ew],
     last_key |-> StateKey(NewQLearningController, QuietState),
     last_action |-> 12]

\* A new controller, or one that has been used for LongRunDecides decides.
InitLong ==
    /\ NoSimulation
    /\ controller \in {NewQLearningController, AfterLongRun}
    /\ call = [op |-> "none", learned |-> {}, learns |-> 0]
    /\ calls = 0
    /\ run = NoRun

\* controller.decide(state), exploiting
DecideLong(state) ==
    LET out == QDecide(controller, state, FALSE, Actions[1])
    IN  /\ calls < MaxLongCalls
        /\ controller' = out.self
        /\ call' = [op |-> "decide", self |-> controller, state |-> state,
                    explore |-> FALSE, decision |-> out.decision,
                    learned |-> call.learned, learns |-> call.learns]
        /\ calls' = calls + 1
        /\ UNCHANGED <<simvars, run>>

\* controller.learn(state, reward, next_state)
LearnLong(reward10, next_state) ==
    /\ calls < MaxLongCalls
    /\ call.learns < MaxLongLearns
    /\ controller' = QLearn(controller, reward10, next_state)
    /\ call' = [op |-> "learn", self |-> controller, reward10 |-> reward10,
                next_state |-> next_state,
                learned |-> IF HasLastKey(controller)
                            THEN call.learned \cup {controller.last_key}
                            ELSE call.learned,
                learns |-> call.learns + 1]
    /\ calls' = calls + 1
    /\ UNCHANGED <<simvars, run>>

NextLong ==
    \/ \E state \in {QuietState, BusyState} : DecideLong(state)
    \/ \E reward10 \in Rewards10 : LearnLong(reward10, QuietState)

\* A Q-learning controller followed over many decides, from its construction
\* and from late in a long run.
SpecLong == InitLong /\ [][NextLong]_vars

(* ------------------------- NeuralController ---------------------------- *)

\* _encode: [ns, ew, phase, tod, emergency], the queue features in 30ths
\* (min(1.0, q / 30.0)), the time-of-day feature in tenths
Encode(state) ==
    <<Min(30, state.queue_ns),
      Min(30, state.queue_ew),
      IF state.phase = "NS" THEN 1 ELSE 0,
      IF state.time_of_day = "morning" THEN 10
      ELSE IF state.time_of_day = "night" THEN 2 ELSE 5,
      IF state.emergency THEN 1 ELSE 0>>

\* _forward(features)[0] under the given weights.  The weights are the ones
\* drawn from Random(42) changed by the gradient steps of learn; they are
\* held as the sequence of those steps, and the prediction, a sigmoid of
\* sigmoids, is left uncomputed: it is named by the weights and features it
\* is computed from.
Forward(weights, features) == [weights |-> weights, features |-> features]

\* reward_scaled = max(-1.0, min(1.0, reward / 20.0)), in 200ths
RewardScaled(reward10) == Max(-200, Min(200, reward10))

\* A NeuralController whose w1 and w2 are drawn from the given generator
\* (its seed and the number of values drawn from it before): memory is an
\* empty list, the weights are the drawn ones with no gradient step taken.
NeuralFrom(generator) ==
    [name |-> "neural", memory |-> <<>>,
     weights |-> <<[features |-> generator, reward_scaled |-> 0]>>]

\* NeuralController(): rng = random.Random(42), a generator of its own
NewNeuralController == NeuralFrom([seed |-> WeightSeed, drawn |-> 0])

\* decide(state): self.memory.append({"features": ..., "pred_norm": ...});
\* the duration 4.0 + 12.0 * pred_norm is returned as <<4, 12, pred_norm>>
NDecide(self, state) ==
    LET feats == Encode(state)
        pred_norm == Forward(self.weights, feats)
    IN  [self |-> [self EXCEPT !.memory =
                       Append(@, [features |-> feats, pred_norm |-> pred_norm])],
         decision |-> [duration |-> <<4, 12, pred_norm>>,
                       explanation |-> "Neural policy"]]

\* learn(state, reward, next_state): one gradient step on the features of
\* self.memory[-1]; neither state argument is read and memory is not written
NLearn(self, reward10) ==
    IF self.memory = <<>> THEN self
    ELSE LET last == self.memory[Len(self.memory)]
         IN  [self EXCEPT !.weights =
                  Append(@, [features |-> last.features,
                             reward_scaled |-> RewardScaled(reward10)])]

\* NeuralController()
InitNeural ==
    /\ NoSimulation
    /\ controller = NewNeuralController
    /\ call = NoCall
    /\ calls = 0
    /\ run = NoRun

\* controller.decide(state)
DecideNeural(state) ==
    LET out == NDecide(controller, state)
    IN  /\ calls < MaxCalls
        /\ controller' = out.self
        /\ call' = [op |-> "decide", self |-> controller, state |-> state,
                    decision |-> out.decision, learned |-> {}]
        /\ calls' = calls + 1
        /\ UNCHANGED <<simvars, run>>

\* controller.learn(state, reward, next_state)
LearnNeural(reward10) ==
    /\ calls < MaxCalls
    /\ controller' = NLearn(controller, reward10)
    /\ call' = [op |-> "learn", self |-> controller, reward10 |-> reward10,
                learned |-> {}]
    /\ calls' = calls + 1
    /\ UNCHANGED <<simvars, run>>

NextNeural ==
    \/ \E state \in ObservedStates : DecideNeural(state)
    \/ \E reward10 \in Rewards10 \cup {100} : LearnNeural(reward10)

\* A neural controller called in any order with the states above.
SpecNeural == InitNeural /\ [][NextNeural]_vars

(* ------------- NeuralController: the sign of a gradient step ------------ *)

\* The forward pass is a sigmoid of sigmoids and cannot be computed here.
\* What one learn does to a later prediction is followed instead by sign:
\* every quantity of learn and _forward is held as its sign (-1, 0, 1), and
\* a change as the set of signs it can have (1: higher, 0: equal, -1:
\* lower).  A sigmoid output h satisfies 0 < h < 1, so h and 1 - h have sign 1.

\* hidden_size: int = 6
HiddenSize == 6

\* the signs of w2 as drawn from Random(42):
\* 0.307, 0.230, 0.036, 0.473, -0.121, 0.052
DrawnW2 == <<1, 1, 1, 1, -1, 1>>

Sign(x) == IF x > 0 THEN 1 ELSE IF x < 0 THEN -1 ELSE 0

\* A floating-point result may round to the value it had before: a change
\* that is higher or lower in the reals can also be none.
Rounded(changes) == changes \cup {0}

\* the sign of a + b from the signs of a and b
PlusSigns(a, b) ==
    IF a = 0 THEN {b} ELSE IF b = 0 \/ a = b THEN {a} ELSE {-1, 0, 1}

Plus(A, B) == UNION {PlusSigns(a, b) : <<a, b>> \in A \X B}

Times(A, B) == {a * b : <<a, b>> \in A \X B}

RECURSIVE SumFrom(_, _)
SumFrom(terms, k) ==
    IF k > Len(terms) THEN {0} ELSE Plus(terms[k], SumFrom(terms, k + 1))

\* sum(...) of terms given as sets of signs
Sum(terms) == SumFrom(terms, 1)

\* error = pred_norm - target with target = clamp(pred_norm + 0.3 *
\* reward_scaled): the sign opposite to the reward's, or 0 when the sum
\* rounds to pred_norm
ErrorSigns(reward10) == Rounded({-Sign(RewardScaled(reward10))})

\* grad_out = error * pred_norm * (1 - pred_norm)
GradOut(error) == error * 1 * 1

\* self.w2[i] -= self.lr * grad_out * h[i]
W2Step(grad_out) == Rounded({-(1 * grad_out * 1)})

\* the signs w2[i] can have after a change of the given signs
MovedSign(sign, changes) ==
    UNION {IF change = 0 \/ change = sign THEN {sign}
           ELSE IF sign = 0 THEN {change}
           ELSE {-1, 0, 1} : change \in changes}

\* Mutant of GradHidden: the gradient of the hidden unit is taken with the
\* value w2[i] had before its update.
GradHiddenStale(grad_out, w2_before, w2_after) == grad_out * w2_before * 1 * 1

\* grad_h = grad_out * self.w2[i] * h[i] * (1 - h[i]), after w2[i] was
\* updated on the line before
GradHidden(grad_out, w2_before, w2_after) == grad_out * w2_after * 1 * 1

\* self.w1[i][j] -= self.lr * grad_h * feats[j]
W1Step(grad_h, feat) == Rounded({-(1 * grad_h * Sign(feat))})

\* self.b1[i] -= self.lr * grad_h
B1Step(grad_h) == Rounded({-(1 * grad_h)})

\* self.b2 -= self.lr * grad_out
B2Step(grad_out) == Rounded({-(1 * grad_out)})

\* no weight was changed
NoStep ==
    [features |-> <<0, 0, 0, 0, 0>>,
     w2_after |-> [i \in 1..HiddenSize |-> 0],
     w2 |-> [i \in 1..HiddenSize |-> {0}],
     grad_h |-> [i \in 1..HiddenSize |-> 0],
     b2 |-> {0}]

\* The changes one learn makes, the memory not empty: error is the sign of
\* pred_norm - target and w2_after the signs of the updated w2.
GradientStep(self, error, w2_after) ==
    LET last == self.memory[Len(self.memory)]
        grad_out == GradOut(error)
    IN  [features |-> last.features,
         w2_after |-> w2_after,
         w2 |-> [i \in 1..HiddenSize |-> W2Step(grad_out)],
         grad_h |-> [i \in 1..HiddenSize |->
                        GradHidden(grad_out, self.w2[i], w2_after[i])],
         b2 |-> B2Step(grad_out)]

\* The signs the updated w2 can have, unit by unit.
RECURSIVE UpdatedW2From(_, _, _)
UpdatedW2From(self, error, i) ==
    IF i > HiddenSize THEN {<<>>}
    ELSE {<<first>> \o rest :
             <<first, rest>> \in
                 MovedSign(self.w2[i], W2Step(GradOut(error)))
                 \X UpdatedW2From(self, error, i + 1)}

UpdatedW2(self, error) == UpdatedW2From(self, error, 1)

\* _forward, line 31: the change of s for hidden unit i on the features
\* feats, the weights changed by the step
HiddenInputChange(step, i, feats) ==
    Plus(Sum([j \in 1..Len(feats) |->
                 Times(W1Step(step.grad_h[i], step.features[j]),
                       {Sign(feats[j])})]),
         B1Step(step.grad_h[i]))

\* _forward, line 32: the sigmoid is monotone
HiddenChange(step, i, feats) == Rounded(HiddenInputChange(step, i, feats))

\* _forward, line 33: w2'[i] * h'[i] - w2[i] * h[i]
\*     = w2'[i] * (h'[i] - h[i]) + (w2'[i] - w2[i]) * h[i]
ProductChange(step, i, feats) ==
    Plus(Times({step.w2_after[i]}, HiddenChange(step, i, feats)),
         Times(step.w2[i], {1}))

\* _forward, lines 33-34, and decide, line 48: the change of raw, of
\* pred_norm and of duration = 4.0 + 12.0 * pred_norm
DurationChange(step, feats) ==
    Rounded(Plus(Sum([i \in 1..HiddenSize |-> ProductChange(step, i, feats)]),
                 step.b2))

\* NeuralController(), the weights known by the signs of w2
NewNeuralSigns == [name |-> "neural", memory |-> <<>>, w2 |-> DrawnW2]

InitSigns ==
    /\ NoSimulation
    /\ controller = NewNeuralSigns
    /\ call = [op |-> "none", learned |-> {}, step |-> NoStep, reward10 |-> 0,
               steps |-> 0]
    /\ calls = 0
    /\ run = NoRun

\* controller.decide(state): the change of the duration is the one made by
\* the call before
DecideSigns(state) ==
    LET feats == Encode(state)
    IN  /\ calls < MaxCalls
        /\ controller' = [controller EXCEPT !.memory =
                              Append(@, [features |-> feats])]
        /\ call' = [op |-> "decide", state |-> state,
                    after |-> call.op, reward10 |-> call.reward10,
                    change |-> DurationChange(call.step, feats),
                    step |-> NoStep, steps |-> call.steps, learned |-> {}]
        /\ calls' = calls + 1
        /\ UNCHANGED <<simvars, run>>

\* controller.learn(state, reward, next_state) with nothing in memory
LearnNothing(reward10) ==
    /\ calls < MaxCalls
    /\ controller.memory = <<>>
    /\ call' = [op |-> "learn", reward10 |-> reward10,
                step |-> NoStep, steps |-> call.steps, learned |-> {}]
    /\ calls' = calls + 1
    /\ UNCHANGED <<controller, simvars, run>>

\* controller.learn(state, reward, next_state)
LearnSigns(reward10, error, w2_after) ==
    /\ calls < MaxCalls
    /\ call.steps < MaxGradientSteps
    /\ controller.memory # <<>>
    /\ controller' = [controller EXCEPT !.w2 = w2_after]
    /\ call' = [op |-> "learn", reward10 |-> reward10,
                step |-> GradientStep(controller, error, w2_after),
                steps |-> call.steps + 1, learned |-> {}]
    /\ calls' = calls + 1
    /\ UNCHANGED <<simvars, run>>

NextSigns ==
    \/ \E state \in ObservedStates : DecideSigns(state)
    \/ \E reward10 \in Rewards10 : LearnNothing(reward10)
    \/ \E reward10 \in Rewards10 :
       \E error \in ErrorSigns(reward10) :
       \E w2_after \in UpdatedW2(controller, error) :
           LearnSigns(reward10, error, w2_after)

\* A neural controller whose gradient steps are followed by sign.
SpecSigns == InitSigns /\ [][NextSigns]_vars

(* -------------------- two controllers side by side --------------------- *)

\* Mutant of GeneratorOf: every instance draws from the one generator of the
\* random module.
GeneratorShared(instance, seed) == [owner |-> "random", seed |-> seed]

\* The generator an instance draws from: random.Random(seed) makes a new
\* generator that the instance alone holds.
GeneratorOf(instance, seed) == [owner |-> instance, seed |-> seed]

\* the values w1 and w2 take from the generator: hidden_size * input_size
\* and hidden_size
WeightDraws == 6 * 5 + 6

\* What a generator yields is fixed by its seed and by how many values have
\* been drawn from it before.
SameDraw(g, drawn_g, h, drawn_h) == g.seed = h.seed /\ drawn_g = drawn_h

\* Two controllers of one type, a and b, constructed one after the other;
\* drawn counts the values taken from each generator.
Twins(type) ==
    LET ga == GeneratorOf("a", IF type = "rl" THEN ExplorationSeed ELSE WeightSeed)
        gb == GeneratorOf("b", IF type = "rl" THEN ExplorationSeed ELSE WeightSeed)
        none == [g \in {ga, gb} |-> 0]
        after_a == [none EXCEPT ![ga] = @ + WeightDraws]
        after_b == [after_a EXCEPT ![gb] = @ + WeightDraws]
    IN  IF type = "rl"
        THEN [name |-> "twins", type |-> type, ga |-> ga, gb |-> gb,
              a |-> NewQLearningController, b |-> NewQLearningController,
              drawn |-> none]
        ELSE [name |-> "twins", type |-> type, ga |-> ga, gb |-> gb,
              a |-> NeuralFrom([seed |-> ga.seed, drawn |-> none[ga]]),
              b |-> NeuralFrom([seed |-> gb.seed, drawn |-> after_a[gb]]),
              drawn |-> after_b]

InitTwins ==
    /\ NoSimulation
    /\ controller \in {Twins("rl"), Twins("neural")}
    /\ call = NoCall
    /\ calls = 0
    /\ run = NoRun

\* a.decide(state) and then b.decide(state) on two Q-learning controllers.
\* a draws rng.random() and, exploring, rng.choice(); b then draws from its
\* generator, and gets what a got when that generator has the seed and the
\* position a's had.
TwinDecide(state, explore, choice, explore_b, choice_b) ==
    LET used == IF explore THEN 2 ELSE 1
        used_b == IF explore_b THEN 2 ELSE 1
        drawn_a == [controller.drawn EXCEPT ![controller.ga] = @ + used]
        out_a == QDecide(controller.a, state, explore, choice)
        out_b == QDecide(controller.b, state, explore_b, choice_b)
    IN  /\ calls < MaxCalls
        /\ controller.type = "rl"
        /\ SameDraw(controller.ga, controller.drawn[controller.ga],
                    controller.gb, drawn_a[controller.gb])
               => (explore_b = explore /\ choice_b = choice)
        /\ controller' = [controller EXCEPT
                            !.a = out_a.self, !.b = out_b.self,
                            !.drawn = [drawn_a EXCEPT ![controller.gb] = @ + used_b]]
        /\ call' = [op |-> "decide", self |-> controller, state |-> state,
                    explore |-> explore, decision |-> out_a.decision,
                    decision_b |-> out_b.decision, learned |-> {}]
        /\ calls' = calls + 1
        /\ UNCHANGED <<simvars, run>>

\* a.decide(state) and then b.decide(state) on two neural controllers
TwinDecideNeural(state) ==
    LET out_a == NDecide(controller.a, state)
        out_b == NDecide(controller.b, state)
    IN  /\ calls < MaxCalls
        /\ controller.type = "neural"
        /\ controller' = [controller EXCEPT !.a = out_a.self, !.b = out_b.self]
        /\ call' = [op |-> "decide", self |-> controller, state |-> state,
                    explore |-> FALSE, decision |-> out_a.decision,
                    decision_b |-> out_b.decision, learned |-> {}]
        /\ calls' = calls + 1
        /\ UNCHANGED <<simvars, run>>

\* a.learn(state, reward, next_state) and then the same call on b
TwinLearn(reward10, next_state) ==
    /\ calls < MaxCalls
    /\ controller' =
           IF controller.type = "rl"
           THEN [controller EXCEPT !.a = QLearn(@, reward10, next_state),
                                   !.b = QLearn(@, reward10, next_state)]
           ELSE [controller EXCEPT !.a = NLearn(@, reward10),
                                   !.b = NLearn(@, reward10)]
    /\ call' = [op |-> "learn", self |-> controller, reward10 |-> reward10,
                next_state |-> next_state, learned |-> {}]
    /\ calls' = calls + 1
    /\ UNCHANGED <<simvars, run>>

NextTwins ==
    \/ \E state \in ObservedStates, explore_b \in BOOLEAN, choice_b \in ActionSet :
           TwinDecide(state, FALSE, Actions[1], explore_b, choice_b)
    \/ \E state \in ObservedStates, choice \in ActionSet,
          explore_b \in BOOLEAN, choice_b \in ActionSet :
           TwinDecide(state, TRUE, choice, explore_b, choice_b)
    \/ \E state \in ObservedStates : TwinDecideNeural(state)
    \/ \E reward10 \in Rewards10, next_state \in ObservedStates :
           TwinLearn(reward10, next_state)

\* Two controllers of the same type given the same calls.
SpecTwins == InitTwins /\ [][NextTwins]_vars

(* ------------------------------ run_once ------------------------------- *)

\* Mutant of FixedDecide: the default of 10 seconds whatever the time of day.
FixedDecideDefault(state) ==
    [duration |-> Resolution * 10,
     explanation |-> "Fixed plan based on time-of-day profile."]

\* Mutant of FixedDecide: the plan has no entry for the night.
FixedDecideNoNight(state) ==
    [duration |-> Resolution * (IF state.time_of_day = "morning" THEN 12 ELSE 10),
     explanation |-> "Fixed plan based on time-of-day profile."]

\* FixedTimeController.decide: self.plans.get(state.get("time_of_day"), 10),
\* in ticks; no target phase
FixedDecide(state) ==
    [duration |-> Resolution * (IF state.time_of_day = "morning" THEN 12
                                ELSE IF state.time_of_day = "afternoon" THEN 10
                                ELSE IF state.time_of_day = "night" THEN 6
                                ELSE 10),
     explanation |-> "Fixed plan based on time-of-day profile."]

\* FixedTimeController()
NewFixedTimeController == [name |-> "fixed"]

\* what a call that raises leaves to its caller
Raised(error) == [raised |-> error]

HasRaised(result) == "raised" \in DOMAIN result

\* Mutant of BuildController: an unknown type gives the fixed-time controller.
BuildControllerFallback(controller_type) ==
    IF controller_type = "neural" THEN NewNeuralController
    ELSE IF controller_type = "rl" THEN NewQLearningController
    ELSE NewFixedTimeController

\* build_controller(controller_type)
BuildController(controller_type) ==
    IF controller_type = "fixed" THEN NewFixedTimeController
    ELSE IF controller_type = "neural" THEN NewNeuralController
    ELSE IF controller_type = "rl" THEN NewQLearningController
    ELSE Raised("ValueError")

\* controller.decide(state) in a run.  A run is followed for at most
\* FirstExploringDecide decides, so a QLearningController does not explore.
ControllerDecide(self, state) ==
    IF self.name = "rl" THEN QDecide(self, state, FALSE, Actions[1])
    ELSE [self |-> self, decision |-> FixedDecide(state)]

\* controller.learn(state, reward, next_state) in a run
ControllerLearn(self, reward10, next_state) ==
    IF self.name = "rl" THEN QLearn(self, reward10, next_state) ELSE self

\* Intersection.observe_state(time_of_day, emergency) of intersection i of ints
Observe(ints, i, time_of_day, emergency) ==
    [intersection |-> i,
     queue_ns |-> ints[i].queue_ns,
     queue_ew |-> ints[i].queue_ew,
     phase |-> ints[i].phase,
     time_of_day |-> time_of_day,
     emergency |-> emergency]

\* Mutant of NetworkAtDecide: the arrivals of the step have joined the
\* queues when the decisions are made.
NetworkAtDecideArrived(step_arrivals) ==
    [i \in DOMAIN intersections |->
        [intersections[i] EXCEPT
            !.queue_ns = @ + step_arrivals[i].arrivals_ns,
            !.queue_ew = @ + step_arrivals[i].arrivals_ew]]

\* The network as the first inner loop of run_once finds it: network.step
\* is called after the loop, so no intersection has been stepped.
NetworkAtDecide(step_arrivals) == intersections

\* The network as the second inner loop finds it: network.step has
\* returned, every intersection has been stepped.
NetworkAtLearn(out) == out.intersections

\* The first inner loop of run_once from intersection i on: observe_state,
\* decide, decisions.append, last_states[inter_id] = state.  acc holds the
\* controller, the decisions and the states so far, and the key under which
\* a QLearningController made each decision.
RECURSIVE DecideLoop(_, _, _, _)
DecideLoop(i, acc, step_arrivals, time_of_day) ==
    IF i \notin DOMAIN step_arrivals THEN acc
    ELSE LET state == Observe(NetworkAtDecide(step_arrivals), i, time_of_day,
                              step_arrivals[i].emergency)
             out == ControllerDecide(acc.self, state)
         IN  DecideLoop(i + 1,
                        [self |-> out.self,
                         decisions |-> acc.decisions @@ (i :> out.decision),
                         last_states |-> (i :> state) @@ acc.last_states,
                         keys |-> IF acc.self.name = "rl"
                                  THEN acc.keys @@ (i :> StateKey(acc.self, state))
                                  ELSE acc.keys],
                        step_arrivals, time_of_day)

\* The entry of q that a learn on the controller writes, the one under
\* self.last_key and self.last_action, and the key it takes the best next
\* value from: next_key = self._state_key(next_state).
LearnTarget(self, next_state) ==
    [key |-> self.last_key, action |-> self.last_action,
     next_key |-> StateKey(self, next_state)]

\* The second inner loop of run_once from intersection i on: for each reward,
\* learn with the state observed after the network's step.  acc holds the
\* controller and, for a QLearningController, the entry each learn wrote.
RECURSIVE LearnLoop(_, _, _, _, _)
LearnLoop(i, acc, out, step_arrivals, time_of_day) ==
    IF i \notin DOMAIN out.rewards THEN acc
    ELSE LET next_state == Observe(NetworkAtLearn(out), i, time_of_day,
                                   step_arrivals[i].emergency)
         IN  LearnLoop(i + 1,
                       [self |-> ControllerLearn(acc.self, out.rewards[i],
                                                 next_state),
                        targets |-> IF acc.self.name = "rl"
                                    THEN acc.targets @@
                                         (i :> LearnTarget(acc.self, next_state))
                                    ELSE acc.targets],
                       out, step_arrivals, time_of_day)

\* the log of intersection i with the fields copied from its arrival record
LogRow(i, arr, log) ==
    [step |-> arr.step, intersection |-> i, time_of_day |-> arr.time_of_day]
        @@ log

\* TIME_PROFILES[profile]: the ends (lo, hi) of ns_rate and ew_rate
NsRate(profile) ==
    IF profile = "morning" THEN <<3, 6>>
    ELSE IF profile = "night" THEN <<1, 2>> ELSE <<2, 4>>

EwRate(profile) ==
    IF profile = "morning" THEN <<2, 4>>
    ELSE IF profile = "night" THEN <<0, 1>> ELSE <<2, 4>>

\* rng.random() < emergency_rate: never with rate 0, either way otherwise
EmergencyDraws(emergency_rate) == IF emergency_rate = 0 THEN {FALSE} ELSE BOOLEAN

\* The records generate_stream yields for one intersection at one step; of
\* the draws of rng.randint only both rates at their lower end and both at
\* their upper end are followed.
StreamRecords(step, profile, emergency_rate) ==
    {[step |-> step, time_of_day |-> profile,
      arrivals_ns |-> NsRate(profile)[k], arrivals_ew |-> EwRate(profile)[k],
      emergency |-> e] : k \in {1, 2}, e \in EmergencyDraws(emergency_rate)}

\* The parameters of the runs followed: --profile, --emergency_rate (in
\* hundredths; 2 is the default 0.02), --intersections and the controller.
RunProfiles == {"morning", "night"}
RunEmergencyRates == {0, 2}
RunIntersections == {1, NumIntersections}
RunControllers == {"fixed", "rl"}

\* run_once up to the loop: the controller is built, the generator made,
\* the network is made of args.intersections new intersections with the
\* default service rate, log_rows and last_states are empty and no log file
\* is written.  pc is the statement run_once is at.  prev_states and keys
\* are history: last_states as it was one step earlier, and the keys of this
\* step's decides; next_states is the next_state passed to each learn and
\* targets the entry of q each learn wrote and the key it looked ahead to,
\* prev_targets the targets of one step earlier.
InitRun ==
    \E name \in RunControllers, n \in RunIntersections,
       profile \in RunProfiles, rate \in RunEmergencyRates :
        /\ service_rate = 1
        /\ intersections = [i \in 0..(n - 1) |-> NewIntersection]
        /\ before = [i \in 0..(n - 1) |-> NewIntersection]
        /\ raw_arrivals = Empty
        /\ arrivals = Empty
        /\ decisions = Empty
        /\ logs = Empty
        /\ rewards = Empty
        /\ downstream_inflows = Empty
        /\ controller = BuildController(name)
        /\ call = NoCall
        /\ calls = 0
        /\ run = [controller_name |-> name,
                  intersections |-> n,
                  profile |-> profile,
                  emergency_rate |-> rate,
                  steps |-> MaxSteps,
                  pc |-> "loop",
                  generator |-> TRUE,
                  log_written |-> FALSE,
                  step |-> 0,
                  log_rows |-> <<>>,
                  last_states |-> Empty,
                  prev_states |-> Empty,
                  keys |-> Empty,
                  targets |-> Empty,
                  prev_targets |-> Empty,
                  next_states |-> Empty]

\* One iteration of run_once's loop over the generator.
RunStep(step_arrivals) ==
    LET time_of_day == step_arrivals[0].time_of_day
        dec == DecideLoop(0, [self |-> controller, decisions |-> Empty,
                              last_states |-> run.last_states, keys |-> Empty],
                          step_arrivals, time_of_day)
        out == NetworkResult(step_arrivals, dec.decisions)
        learnt == LearnLoop(0, [self |-> dec.self, targets |-> Empty], out,
                            out.arrivals, time_of_day)
        n == run.intersections
    IN  /\ run.pc = "loop"
        /\ run.step < run.steps
        /\ controller.name = "rl" =>
               controller.step_count + n <= Min(MaxDecides, FirstExploringDecide)
        /\ NetworkEffect(step_arrivals, dec.decisions, out)
        /\ controller' = learnt.self
        /\ run' = [run EXCEPT
                     !.step = @ + 1,
                     !.log_rows = @ \o [k \in 1..n |->
                                          LogRow(k - 1, out.arrivals[k - 1],
                                                 out.logs[k - 1])],
                     !.last_states = dec.last_states,
                     !.prev_states = run.last_states,
                     !.keys = dec.keys,
                     !.targets = learnt.targets,
                     !.prev_targets = run.targets,
                     !.next_states =
                         [i \in DOMAIN out.rewards |->
                             Observe(NetworkAtLearn(out), i, time_of_day,
                                     out.arrivals[i].emergency)]]
        /\ UNCHANGED <<call, calls>>

NextRun ==
    \E step_arrivals \in [DOMAIN intersections ->
                            StreamRecords(run.step, run.profile, run.emergency_rate)] :
        RunStep(step_arrivals)

\* run_once with the fixed-time or the Q-learning controller.
SpecRun == InitRun /\ [][NextRun]_vars

(* ------------------- run_once from its first line --------------------- *)

\* The controller names run_once is called with: the three known ones and
\* two that build_controller does not know.
ControllerNames == {"fixed", "neural", "rl", "bogus", "Fixed"}

\* run_once(args, controller_name) has been called and nothing is built yet.
InitRunOnce ==
    \E name \in ControllerNames, n \in RunIntersections,
       profile \in RunProfiles, rate \in RunEmergencyRates :
        /\ n = 1 \/ rate = 0
        /\ NoSimulation
        /\ controller = NoController
        /\ call = NoCall
        /\ calls = 0
        /\ run = [controller_name |-> name,
                  intersections |-> n,
                  profile |-> profile,
                  emergency_rate |-> rate,
                  steps |-> MaxSteps,
                  pc |-> "build_controller",
                  generator |-> FALSE,
                  log_written |-> FALSE,
                  step |-> 0,
                  log_rows |-> <<>>,
                  last_states |-> Empty,
                  prev_states |-> Empty,
                  keys |-> Empty,
                  targets |-> Empty,
                  prev_targets |-> Empty,
                  next_states |-> Empty]

\* controller = build_controller(controller_name); an exception leaves
\* run_once at once
RunBuildController ==
    LET built == BuildController(run.controller_name)
    IN  /\ run.pc = "build_controller"
        /\ IF HasRaised(built)
           THEN /\ run' = [run EXCEPT !.pc = "raised"]
                /\ UNCHANGED controller
           ELSE /\ run' = [run EXCEPT !.pc = "generate_stream"]
                /\ controller' = built
        /\ UNCHANGED <<simvars, call, calls>>

\* generator = generate_stream(...)
RunMakeGenerator ==
    /\ run.pc = "generate_stream"
    /\ run' = [run EXCEPT !.pc = "network", !.generator = TRUE]
    /\ UNCHANGED <<simvars, ctlvars>>

\* network = MultiIntersectionNetwork(...); log_rows = []; last_states = {}
RunMakeNetwork ==
    /\ run.pc = "network"
    /\ intersections' = [i \in 0..(run.intersections - 1) |-> NewIntersection]
    /\ before' = [i \in 0..(run.intersections - 1) |-> NewIntersection]
    /\ run' = [run EXCEPT !.pc = "loop"]
    /\ UNCHANGED <<service_rate, raw_arrivals, arrivals, decisions, logs,
                   rewards, downstream_inflows, ctlvars>>

\* after the loop: df.to_csv(log_path, index=False)
RunWriteLog ==
    /\ run.pc = "loop"
    /\ run.step = run.steps
    /\ run' = [run EXCEPT !.pc = "done", !.log_written = TRUE]
    /\ UNCHANGED <<simvars, ctlvars>>

\* The loop is followed for the controllers whose durations are computed.
NextRunOnce ==
    \/ RunBuildController
    \/ RunMakeGenerator
    \/ RunMakeNetwork
    \/ /\ controller.name \in RunControllers
       /\ NextRun
    \/ RunWriteLog

\* run_once from its call to the written log file.
SpecRunOnce == InitRunOnce /\ [][NextRunOnce]_vars

(* ----------------- a standalone FixedTimeController -------------------- *)

\* States passed to decide: the three time-of-day labels of the plan and one
\* that is not in it.
FixedStates ==
    [intersection : {0}, queue_ns : {0, 5}, queue_ew : {0, 4}, phase : Phases,
     time_of_day : {"morning", "afternoon", "night", "evening"},
     emergency : BOOLEAN]

\* FixedTimeController()
InitFixed ==
    /\ NoSimulation
    /\ controller = NewFixedTimeController
    /\ call = [op |-> "none", learned |-> {}, learns |-> 0]
    /\ calls = 0
    /\ run = NoRun

\* controller.decide(state)
DecideFixed(state) ==
    /\ calls < MaxCalls
    /\ controller' = controller
    /\ call' = [op |-> "decide", self |-> controller, state |-> state,
                decision |-> FixedDecide(state),
                learned |-> {}, learns |-> call.learns]
    /\ calls' = calls + 1
    /\ UNCHANGED <<simvars, run>>

\* controller.learn(...): returns None and assigns to nothing
LearnFixed(reward10) ==
    /\ calls < MaxCalls
    /\ controller' = ControllerLearn(controller, reward10, QuietState)
    /\ call' = [op |-> "learn", self |-> controller, reward10 |-> reward10,
                learned |-> {}, learns |-> call.learns + 1]
    /\ calls' = calls + 1
    /\ UNCHANGED <<simvars, run>>

NextFixed ==
    \/ \E state \in FixedStates : DecideFixed(state)
    \/ \E reward10 \in Rewards10 : LearnFixed(reward10)

\* A fixed-time controller called in any order.
SpecFixed == InitFixed /\ [][NextFixed]_vars

(* ------------------- Intersection.observe_state ------------------------ *)

\* Mutant of ObserveEffect: observe_state hands the queues over and empties
\* them.
ObserveEffectDrain(self) == [self EXCEPT !.queue_ns = 0, !.queue_ew = 0]

\* What observe_state does to the intersection: it reads three attributes
\* and assigns none.
ObserveEffect(self) == self

\* Intersection(0, service_rate), not yet observed
InitObserve == InitWith({0})

\* state = intersections[0].observe_state(time_of_day, emergency): the dict
\* returned holds the integers and strings read, which nothing can change.
ObserveState(time_of_day, emergency) ==
    /\ call' = [op |-> "observe_state", self |-> intersections[0],
                left |-> ObserveEffect(intersections[0]),
                time_of_day |-> time_of_day, emergency |-> emergency,
                state |-> Observe(intersections, 0, time_of_day, emergency),
                learned |-> {}]
    /\ before' = intersections
    /\ intersections' = [intersections EXCEPT ![0] = ObserveEffect(@)]
    /\ UNCHANGED <<service_rate, raw_arrivals, arrivals, decisions, logs,
                   rewards, downstream_inflows, controller, calls, run>>

NextObserve ==
    \/ \E time_of_day \in RunProfiles, emergency \in BOOLEAN :
           ObserveState(time_of_day, emergency)
    \/ \E arr \in NetworkArrivalRecords, decision \in ControllerDecisions :
           Step(arr, decision)

\* A single intersection observed and stepped in any order.
SpecObserve == InitObserve /\ [][NextObserve]_vars

(* ---------------- an Intersection after the arrivals stop --------------- *)

\* queue_ns + queue_ew of the intersection
TotalQueue == intersections[0].queue_ns + intersections[0].queue_ew

\* The arrival records that fill the queues before the arrivals stop.
FillingArrivals ==
    [arrivals_ns : {0, MaxArrivals}, arrivals_ew : {0, MaxArrivals},
     emergency : {FALSE}]

\* Arrival records that bring no vehicle, with or without an emergency.
NoArrivals == [arrivals_ns : {0}, arrivals_ew : {0}, emergency : BOOLEAN]

\* Decisions without target phase that let at least one vehicle through:
\* int(self.service_rate * duration) >= 1.
ServingDecisions ==
    {decision \in [duration : Durations, explanation : {"ctl"}] :
        IntTrunc(service_rate * decision.duration, Resolution) >= 1}

\* Intersection(0, service_rate); the stream still brings vehicles
InitDrain ==
    /\ controller = NoController
    /\ call = [op |-> "arriving", learned |-> {}]
    /\ calls = 0
    /\ run = NoRun
    /\ service_rate \in ServiceRates
    /\ intersections = [i \in {0} |-> NewIntersection]
    /\ before = [i \in {0} |-> NewIntersection]
    /\ raw_arrivals = Empty
    /\ arrivals = Empty
    /\ decisions = Empty
    /\ logs = Empty
    /\ rewards = Empty
    /\ downstream_inflows = Empty

\* a step while vehicles arrive
ArrivingStep(arr, decision) ==
    /\ call.op = "arriving"
    /\ StepEffect(arr, decision)
    /\ UNCHANGED <<ctlvars, run>>

\* The last arrival has come.  steps counts the steps made since, up to 2,
\* and earlier holds the total queue when the step before the last began.
ArrivalsStop ==
    /\ call.op = "arriving"
    /\ call' = [op |-> "draining", steps |-> 0, earlier |-> TotalQueue,
                learned |-> {}]
    /\ UNCHANGED <<simvars, controller, calls, run>>

\* a step after the arrivals have stopped
DrainingStep(arr, decision) ==
    /\ call.op = "draining"
    /\ StepEffect(arr, decision)
    /\ call' = [call EXCEPT
                  !.steps = Min(2, @ + 1),
                  !.earlier = before[0].queue_ns + before[0].queue_ew]
    /\ UNCHANGED <<controller, calls, run>>

\* the steps after the arrivals have stopped
Draining ==
    \E arr \in NoArrivals, decision \in ServingDecisions : DrainingStep(arr, decision)

NextDrain ==
    \/ \E arr \in FillingArrivals, decision \in ControllerDecisions :
           ArrivingStep(arr, decision)
    \/ ArrivalsStop
    \/ Draining

\* An intersection whose arrivals stop at some step and that goes on being
\* stepped: the loop of run_once steps it once for every record of the stream.
SpecDrain == InitDrain /\ [][NextDrain]_vars /\ WF_vars(Draining)

(* --------------------------- generate_stream --------------------------- *)

\* time_periods = ["morning", "afternoon", "night"]
TimePeriods == <<"morning", "afternoon", "night">>

\* period_length = steps // 3 if varied_time else steps
PeriodLength(steps, varied_time) == IF varied_time THEN steps \div 3 ELSE steps

\* what an expression that raises nothing gives
Returned(value) == [value |-> value]

\* a // b for a >= 0 and b >= 0: ZeroDivisionError when b is 0
FloorDiv(a, b) ==
    IF b = 0 THEN Raised("ZeroDivisionError") ELSE Returned(a \div b)

\* The time period of a step: time_periods[(step // period_length) % 3] with
\* varied_time, the profile without; an error if the division raises.
CurrentProfile(step, period_length, varied_time, profile) ==
    IF ~varied_time THEN Returned(profile)
    ELSE LET periods == FloorDiv(step, period_length)
         IN  IF HasRaised(periods) THEN periods
             ELSE Returned(TimePeriods[(periods.value % 3) + 1])

\* generate_stream(steps, intersections, profile, emergency_rate, seed,
\* varied_time) called and not yet iterated: the body of a generator runs
\* from the first next().  yielded counts the lists yielded, last is the
\* list yielded last, raised the exception that ended the generator.
InitStream ==
    \E steps \in 1..MaxSteps, n \in RunIntersections, profile \in RunProfiles,
       rate \in RunEmergencyRates, varied_time \in BOOLEAN :
        /\ NoSimulation
        /\ controller = NoController
        /\ call = NoCall
        /\ calls = 0
        /\ run = [controller_name |-> "none",
                  steps |-> steps,
                  intersections |-> n,
                  profile |-> profile,
                  emergency_rate |-> rate,
                  varied_time |-> varied_time,
                  pc |-> "created",
                  period_length |-> 0,
                  step |-> 0,
                  yielded |-> 0,
                  last |-> Empty,
                  raised |-> "none"]

\* the first next(): lines 36-40, up to the loop
StreamStart ==
    /\ run.pc = "created"
    /\ run' = [run EXCEPT
                 !.pc = "loop",
                 !.period_length = PeriodLength(run.steps, run.varied_time)]
    /\ UNCHANGED <<simvars, ctlvars>>

\* one iteration of the loop that raises on line 45
StreamRaise ==
    LET current == CurrentProfile(run.step, run.period_length,
                                  run.varied_time, run.profile)
    IN  /\ run.pc = "loop"
        /\ run.step < run.steps
        /\ HasRaised(current)
        /\ run' = [run EXCEPT !.pc = "raised", !.raised = current.raised]
        /\ UNCHANGED <<simvars, ctlvars>>

\* one iteration of the loop, up to its yield
StreamYield(step_arrivals) ==
    LET current == CurrentProfile(run.step, run.period_length,
                                  run.varied_time, run.profile)
    IN  /\ run.pc = "loop"
        /\ run.step < run.steps
        /\ ~HasRaised(current)
        /\ \A i \in DOMAIN step_arrivals :
               step_arrivals[i] \in
                   StreamRecords(run.step, current.value, run.emergency_rate)
        /\ run' = [run EXCEPT !.step = @ + 1, !.yielded = @ + 1,
                              !.last = step_arrivals]
        /\ UNCHANGED <<simvars, ctlvars>>

\* range(steps) is exhausted: the generator returns
StreamEnd ==
    /\ run.pc = "loop"
    /\ run.step = run.steps
    /\ run' = [run EXCEPT !.pc = "done"]
    /\ UNCHANGED <<simvars, ctlvars>>

\* every list of n arrival records whose fields are those of some profile
StreamLists(n) ==
    [0..(n - 1) ->
        UNION {StreamRecords(run.step, period, run.emergency_rate) :
                  period \in {TimePeriods[k] : k \in 1..3}}]

NextStream ==
    \/ StreamStart
    \/ StreamRaise
    \/ \E step_arrivals \in StreamLists(run.intersections) :
           StreamYield(step_arrivals)
    \/ StreamEnd

\* generate_stream iterated to its end.
SpecStream == InitStream /\ [][NextStream]_vars

(* ------------------------------ claims --------------------------------- *)

\* The intersections the last call stepped.
Stepped == DOMAIN logs

\* The queues of intersection i once the last call had added its arrivals.
ArrivedNS(i) == before[i].queue_ns + arrivals[i].arrivals_ns

ArrivedEW(i) == before[i].queue_ew + arrivals[i].arrivals_ew

\* The queue of the approach that had green in the last call, after arrivals.
ArrivedGreen(i) ==
    IF logs[i].phase_used = "NS" THEN ArrivedNS(i) ELSE ArrivedEW(i)

\* The number served on the approach that had green in the last call.
ServedGreen(i) ==
    IF logs[i].phase_used = "NS" THEN logs[i].served_ns ELSE logs[i].served_ew

\* The queue now of the approach that had green in the last call.
QueueGreen(i) ==
    IF logs[i].phase_used = "NS"
    THEN intersections[i].queue_ns ELSE intersections[i].queue_ew

\* The duration in effect in the last call, in ticks: the decision's, raised
\* to the emergency minimum on an emergency step.
InEffect(i) ==
    IF arrivals[i].emergency
    THEN Max(EmergencyMinDuration * Resolution, decisions[i].duration)
    ELSE decisions[i].duration

\* floor(service_rate * duration), the duration in ticks.
Capacity(i) == (service_rate * InEffect(i)) \div Resolution

Opposite(p) == IF p = "NS" THEN "EW" ELSE "NS"

\* The phase an emergency forces: the longer queue after arrivals, NS on a tie.
Forced(i) == IF ArrivedNS(i) >= ArrivedEW(i) THEN "NS" ELSE "EW"

\* C1: after every Intersection.step with non-negative arrivals and a
\* non-negative duration, with or without an emergency, both queues are >= 0
\* (in the intersection and in the log it returned).
C1_QueuesNonNegative ==
    /\ \A i \in DOMAIN intersections :
          intersections[i].queue_ns >= 0 /\ intersections[i].queue_ew >= 0
    /\ \A i \in Stepped : logs[i].queue_ns >= 0 /\ logs[i].queue_ew >= 0

\* C1 witness: a step whose green could have served more vehicles than were
\* queued emptied the queue.
C1_Witness ==
    \E i \in Stepped :
        /\ logs[i].throughput > 0
        /\ Capacity(i) > ArrivedGreen(i)
        /\ QueueGreen(i) = 0

\* C2: on a step whose arrival record has emergency set, phase_used is NS when
\* queue_ns >= queue_ew after this step's arrivals and EW otherwise, whatever
\* the previous phase and whatever target phase the decision carries.
C2_EmergencyPhaseUsed ==
    \A i \in Stepped :
        arrivals[i].emergency => logs[i].phase_used = Forced(i)

\* C2 witness: an emergency step that gave green to EW although the phase was
\* NS and the decision asked for NS.
C2_Witness ==
    \E i \in Stepped :
        /\ arrivals[i].emergency
        /\ HasTarget(decisions[i])
        /\ decisions[i].target_phase = "NS"
        /\ before[i].phase = "NS"
        /\ logs[i].phase_used = "EW"

\* C3 (as claimed): within one network step every intersection i >= 1 has
\* floor(0.6 * throughput of intersection i-1 in that same call) added to its
\* north-south arrivals before its own step.
C3_SameCallInflow ==
    \A i \in Stepped :
        i >= 1 =>
            arrivals[i].arrivals_ns =
                raw_arrivals[i].arrivals_ns + (6 * logs[i - 1].throughput) \div 10

\* C4 (as claimed): the north-south arrivals applied to intersection 1 in a
\* network step are its raw arrivals plus floor(0.6 * T), T the throughput of
\* intersection 0 in the network step before.
C4_NextCallInflow ==
    [][Stepped # {}
          => arrivals'[1].arrivals_ns =
                raw_arrivals'[1].arrivals_ns + (6 * logs[0].throughput) \div 10]_vars

\* C5: the number served on the approach given by phase_used is
\* min(that approach's queue after arrivals, floor(service_rate * duration in
\* effect)), exactly that number is subtracted from that queue, and it is the
\* number the log reports.
C5_ServedIsMin ==
    \A i \in Stepped :
        /\ ServedGreen(i) = Min(ArrivedGreen(i), Capacity(i))
        /\ QueueGreen(i) = ArrivedGreen(i) - Min(ArrivedGreen(i), Capacity(i))

\* C5 witness: a step where the green was too short for the queue, and a
\* fraction of a vehicle was dropped by the floor.
C5_Witness ==
    \E i \in Stepped :
        /\ Capacity(i) > 0
        /\ Capacity(i) < ArrivedGreen(i)
        /\ Capacity(i) * Resolution < service_rate * InEffect(i)
        /\ QueueGreen(i) > 0

\* C6: the logged throughput is at most service_rate * logged duration and at
\* most the queue, after arrivals, of the approach that was served.
C6_ThroughputBounds ==
    \A i \in Stepped :
        /\ logs[i].throughput * Resolution <= service_rate * logs[i].duration
        /\ logs[i].throughput <= ArrivedGreen(i)

\* C6 witness: a step whose throughput is below both bounds' other side: less
\* than service_rate * duration and less than the queue.
C6_Witness ==
    \E i \in Stepped :
        /\ logs[i].throughput > 0
        /\ logs[i].throughput * Resolution < service_rate * logs[i].duration
        /\ logs[i].throughput < ArrivedGreen(i)

\* C7 (as claimed): a step with a negative duration and no emergency serves
\* nothing: served_ns, served_ew and throughput are 0 and neither queue grows
\* beyond its arrivals.
C7_NegativeServesNothing ==
    \A i \in Stepped :
        (decisions[i].duration < 0 /\ ~arrivals[i].emergency) =>
            /\ logs[i].served_ns = 0
            /\ logs[i].served_ew = 0
            /\ logs[i].throughput = 0
            /\ intersections[i].queue_ns <= ArrivedNS(i)
            /\ intersections[i].queue_ew <= ArrivedEW(i)

\* C8: on a step with no target phase and no emergency, phase_used is the
\* phase before the step and the phase after the step is the opposite one.
C8_AutoFlip ==
    \A i \in Stepped :
        (~HasTarget(decisions[i]) /\ ~arrivals[i].emergency) =>
            /\ logs[i].phase_used = before[i].phase
            /\ intersections[i].phase = Opposite(before[i].phase)

\* C8 witness: such a step taken with EW green, which hands the green back to NS.
C8_Witness ==
    \E i \in Stepped :
        /\ ~HasTarget(decisions[i])
        /\ ~arrivals[i].emergency
        /\ before[i].phase = "EW"
        /\ logs[i].served_ew > 0
        /\ intersections[i].phase = "NS"

\* C9: after a step with emergency set and no target phase, the phase equals
\* the forced phase used in that step (it is not flipped), and if the next step
\* has neither an emergency nor a target phase it gives green to that same
\* approach.
C9_ForcedPhasePersists ==
    [][/\ \A i \in DOMAIN logs' :
             (arrivals'[i].emergency /\ ~HasTarget(decisions'[i])) =>
                 intersections'[i].phase = logs'[i].phase_used
       /\ \A i \in Stepped \cap DOMAIN logs' :
             ( /\ arrivals[i].emergency /\ ~HasTarget(decisions[i])
               /\ ~arrivals'[i].emergency /\ ~HasTarget(decisions'[i]) ) =>
                 logs'[i].phase_used = logs[i].phase_used]_vars

\* C9 witness: an emergency step without target phase that took the green from
\* NS to EW and left the phase at EW.
C9_Witness ==
    \E i \in Stepped :
        /\ arrivals[i].emergency
        /\ ~HasTarget(decisions[i])
        /\ before[i].phase = "NS"
        /\ logs[i].phase_used = "EW"
        /\ intersections[i].phase = "EW"

\* C10 (as claimed): whenever the decision carries a target phase, the phase
\* after the step is that target phase, on emergency steps as well.
C10_TargetPersists ==
    \A i \in Stepped :
        HasTarget(decisions[i]) =>
            intersections[i].phase = decisions[i].target_phase

\* C10 (amended): whenever the decision carries a target phase, the phase after
\* the step is the phase used in the step: the target phase on an
\* emergency-free step, the phase the emergency forced on an emergency step.
C10_PhaseUsedPersists ==
    \A i \in Stepped :
        HasTarget(decisions[i]) =>
            /\ intersections[i].phase = logs[i].phase_used
            /\ intersections[i].phase =
                  IF arrivals[i].emergency THEN Forced(i)
                  ELSE decisions[i].target_phase

\* C10 witness: an emergency step whose decision asked for EW and that left
\* the phase at NS.
C10_Witness ==
    \E i \in Stepped :
        /\ HasTarget(decisions[i])
        /\ decisions[i].target_phase = "EW"
        /\ arrivals[i].emergency
        /\ intersections[i].phase = "NS"

\* The queue, after arrivals, of the approach that had no green in the last call.
ArrivedRed(i) ==
    IF logs[i].phase_used = "NS" THEN ArrivedEW(i) ELSE ArrivedNS(i)

\* C12: on an emergency step the duration used for service and written to the
\* log is max(5, decision duration); on a non-emergency step it is exactly the
\* decision's duration.
C12_DurationInEffect ==
    \A i \in Stepped :
        /\ logs[i].duration =
              IF arrivals[i].emergency
              THEN Max(5 * Resolution, decisions[i].duration)
              ELSE decisions[i].duration
        /\ ServedGreen(i) =
              Min(ArrivedGreen(i), (service_rate * logs[i].duration) \div Resolution)

\* C12 witness: an emergency step whose decision gave no green time at all and
\* that served vehicles for 5 seconds.
C12_Witness ==
    \E i \in Stepped :
        /\ arrivals[i].emergency
        /\ decisions[i].duration = 0
        /\ logs[i].duration = 5 * Resolution
        /\ logs[i].throughput > 0

\* C13: in every step at most one approach is served (served_ns = 0 or
\* served_ew = 0), only the approach given by phase_used, throughput is
\* served_ns + served_ew, and stops is the queue, after arrivals, of the
\* approach that was not served.
C13_OneApproachServed ==
    \A i \in Stepped :
        /\ logs[i].served_ns = 0 \/ logs[i].served_ew = 0
        /\ logs[i].phase_used = "NS" => logs[i].served_ew = 0
        /\ logs[i].phase_used # "NS" => logs[i].served_ns = 0
        /\ logs[i].throughput = logs[i].served_ns + logs[i].served_ew
        /\ logs[i].stops = ArrivedRed(i)

\* C13 witness: both approaches had vehicles waiting, one was served and the
\* other's vehicles, untouched, were counted as stops.
C13_Witness ==
    \E i \in Stepped :
        /\ ArrivedNS(i) > ArrivedEW(i)
        /\ ArrivedEW(i) > 0
        /\ logs[i].throughput > 0
        /\ logs[i].stops > 0
        /\ logs[i].stops # ArrivedGreen(i)

\* C14: the reward is throughput - wait_proxy - 0.3 * stops, wait_proxy the
\* average of the two queue lengths after service (0 when both are empty),
\* throughput and stops the values of the same step's log.  In tenths, the
\* wait proxy doubled.
C14_Reward ==
    \A i \in Stepped :
        /\ logs[i].avg_wait_proxy2 =
              intersections[i].queue_ns + intersections[i].queue_ew
        /\ rewards[i] =
              10 * logs[i].throughput
                  - 5 * (intersections[i].queue_ns + intersections[i].queue_ew)
                  - 3 * logs[i].stops

\* C14 witness: a step with vehicles served, vehicles left and vehicles
\* stopped, whose reward is negative.
C14_Witness ==
    \E i \in Stepped :
        /\ logs[i].throughput > 0
        /\ logs[i].stops > 0
        /\ QueueGreen(i) > 0
        /\ rewards[i] < 0

\* C15: with decisions that carry no target phase or a target phase of NS or
\* EW, the stored phase and every logged phase_used are NS or EW.
C15_PhaseDefined ==
    /\ \A i \in DOMAIN intersections : intersections[i].phase \in {"NS", "EW"}
    /\ \A i \in Stepped : logs[i].phase_used \in {"NS", "EW"}

\* C15 witness: the three ways a phase is chosen have each produced EW: an
\* emergency-free step without target phase that used and then left EW.
C15_Witness ==
    \E i \in Stepped :
        /\ ~HasTarget(decisions[i])
        /\ ~arrivals[i].emergency
        /\ logs[i].phase_used = "EW"
        /\ before[i].phase = "EW"
        /\ intersections[i].phase = "NS"
        /\ logs[i].throughput = 0

\* The last call was a learn that found a remembered decision.
Learned == call.op = "learn" /\ HasLastKey(call.self)

\* The key the last call computed from its state argument.
CallKey ==
    IF call.op = "decide" THEN StateKey(call.self, call.state)
    ELSE StateKey(call.self, call.next_state)

\* The row of key k before the last call, the initial row if there was none.
RowBefore(k) == IF k \in DOMAIN call.self.q THEN call.self.q[k] ELSE InitRow

\* The largest value of a row.
Largest(row) ==
    CHOOSE m \in {row[a] : a \in ActionSet} : \A a \in ActionSet : ~Less(m, row[a])

C19_LazyInit ==
    (call.op = "decide" \/ Learned) =>
        /\ DOMAIN controller.q = DOMAIN call.self.q \cup {CallKey}
        /\ CallKey \notin DOMAIN call.self.q =>
               /\ controller.q[CallKey][12] = [n |-> 5, e |-> 0]
               /\ controller.q[CallKey][10] = [n |-> 2, e |-> 0]
               /\ controller.q[CallKey][14] = [n |-> 2, e |-> 0]
        /\ \A k \in DOMAIN call.self.q, a \in ActionSet :
               \/ controller.q[k][a] = call.self.q[k][a]
               \/ /\ Learned
                  /\ k = call.self.last_key
                  /\ a = call.self.last_action

\* C19 witness: a decide for a key whose entry learn had changed found the
\* entry as learn left it, and a key seen for the first time is in the table
\* beside it.
C19_Witness ==
    /\ call.op = "decide"
    /\ CallKey \in call.learned
    /\ call.self.q[CallKey] # InitRow
    /\ controller.q[CallKey] = call.self.q[CallKey]
    /\ \E k \in DOMAIN controller.q : k # CallKey

\* C20: a decide that does not explore returns an action of the largest
\* stored value for the current key, the earliest of them in the order
\* 10, 12, 14; for a key learn has never written to this is 12.
C20_Exploit ==
    (call.op = "decide" /\ ~call.explore) =>
        LET row == controller.q[CallKey]
            action == call.decision.duration \div Resolution
        IN  /\ action \in ActionSet
            /\ action * Resolution = call.decision.duration
            /\ \A a \in ActionSet : ~Less(row[action], row[a])
            /\ \A a \in ActionSet : a < action => Less(row[a], row[action])
            /\ CallKey \notin call.learned => action = 12

\* C20 witness: a decide that did not explore found the largest value at
\* more than one action, 14 among them, and returned the earlier one.
C20_Witness ==
    /\ call.op = "decide"
    /\ ~call.explore
    /\ call.decision.duration = 10 * Resolution
    /\ controller.q[CallKey][14] = controller.q[CallKey][10]
    /\ ~Less(controller.q[CallKey][10], controller.q[CallKey][12])

\* C18: after any sequence of NeuralController.decide calls the memory holds
\* only the most recent transition, so it never holds more than one entry.
C18_MemorySingle ==
    controller.name = "neural" => Len(controller.memory) <= 1

\* The rows of log_rows written for intersection i up to row k have no
\* emergency among them.
NoEmergencySoFar(i, k) ==
    \A j \in 1..k :
        run.log_rows[j].intersection = i => ~run.log_rows[j].emergency

\* C11: in a run from the initial state with decisions that carry no target
\* phase, every step adds one log row per intersection, and while an
\* intersection has seen no emergency its phase_used alternates from step to
\* step starting with NS; with the fixed-time controller and profile morning
\* the duration is 12 in every row.
C11_RowsAlternate ==
    run.controller_name # "none" =>
        /\ Len(run.log_rows) = run.intersections * run.step
        /\ \A k \in 1..Len(run.log_rows) :
               LET row == run.log_rows[k]
               IN  /\ row.step = (k - 1) \div run.intersections
                   /\ row.intersection = (k - 1) % run.intersections
                   /\ NoEmergencySoFar(row.intersection, k) =>
                          row.phase_used = IF row.step % 2 = 0 THEN "NS" ELSE "EW"
                   /\ (run.controller_name = "fixed" /\ run.profile = "morning") =>
                          row.duration = 12 * Resolution

\* C11 witness: a run of the fixed-time controller over two intersections,
\* profile morning, emergency rate 0, whose third step used NS again.
C11_Witness ==
    /\ run.controller_name = "fixed"
    /\ run.profile = "morning"
    /\ run.emergency_rate = 0
    /\ run.intersections = 2
    /\ run.step = 3
    /\ run.log_rows[4].phase_used = "EW"
    /\ run.log_rows[6].phase_used = "NS"
    /\ run.log_rows[6].duration = 12 * Resolution

\* The queues intersection i was observed with one step earlier, 0 at the
\* first step.
ObservedBefore(i) ==
    IF i \in DOMAIN run.prev_states THEN run.prev_states[i]
    ELSE [queue_ns |-> 0, queue_ew |-> 0]

\* C17: in the driver loop, for any number of intersections, the trend flag
\* of an approach in the key of intersection i at step t is growing exactly
\* when that approach's queue is longer than the queue observed for the same
\* approach of the same intersection at step t - 1 (0 at the first step).
C17_TrendOwnHistory ==
    run.controller_name = "rl" =>
        \A i \in DOMAIN run.keys :
            /\ run.keys[i][3] = "ns_growing" <=>
                   run.last_states[i].queue_ns > ObservedBefore(i).queue_ns
            /\ run.keys[i][4] = "ew_growing" <=>
                   run.last_states[i].queue_ew > ObservedBefore(i).queue_ew

C23_LearnBeforeDecide ==
    (call.op = "learn" /\ ~HasLastKey(call.self)) =>
        /\ controller = call.self
        /\ DOMAIN controller.q = {}
        /\ controller.step_count = 0
        /\ controller.last_queues = [ns |-> 0, ew |-> 0]
        /\ ~HasLastKey(controller)

\* C23 witness: a second learn in a row on a controller that has not decided
\* yet, with a state whose key is not in the table.
C23_Witness ==
    /\ call.op = "learn"
    /\ ~HasLastKey(call.self)
    /\ calls = 2
    /\ call.next_state.queue_ns = 5
    /\ controller = NewQLearningController

\* C24: the state key computed twice for an unchanged state with no decide
\* in between is the same key, and computing a key does not change the
\* controller: after _state_key the controller is as before and computing
\* the key again gives the key returned; a learn changes no state's key.
C24_KeyStable ==
    /\ call.op = "state_key" =>
           /\ controller = call.self
           /\ StateKey(controller, call.state) = call.key
    /\ call.op = "learn" =>
           \A state \in ObservedStates :
               StateKey(controller, state) = StateKey(call.self, state)

\* C24 witness: a key that depends on what the controller remembers (an
\* approach growing against the queues of the last decide) was computed
\* after a learn had written to the table.
C24_Witness ==
    /\ call.op = "state_key"
    /\ HasLastKey(call.self)
    /\ call.learned # {}
    /\ call.key[3] = "ns_growing"

\* An epsilon below epsilon_min: a product of FloorDecays factors or more.
BelowMin(epsilon) == ~epsilon.floored /\ epsilon.factors >= FloorDecays

\* epsilon a is smaller than epsilon b.
EpsilonLess(a, b) ==
    \/ ~a.floored /\ ~b.floored /\ a.factors > b.factors
    \/ a.floored /\ ~b.floored /\ b.factors < FloorDecays
    \/ ~a.floored /\ b.floored /\ a.factors >= FloorDecays

\* C22: after n decides epsilon is 0.03 multiplied by 0.998 floor(n/10)
\* times, each result floored at 0.01; it changes only on every 10th decide,
\* never increases, is never below 0.01, and learn never changes it.
C22_EpsilonDecay ==
    /\ controller.epsilon =
           IF controller.step_count \div 10 >= FloorDecays THEN EpsilonMin
           ELSE [floored |-> FALSE, factors |-> controller.step_count \div 10]
    /\ ~BelowMin(controller.epsilon)
    /\ call.op = "decide" =>
           /\ controller.step_count = call.self.step_count + 1
           /\ controller.epsilon # call.self.epsilon =>
                  controller.step_count % 10 = 0
           /\ ~EpsilonLess(call.self.epsilon, controller.epsilon)
    /\ call.op = "learn" => controller.epsilon = call.self.epsilon

\* C22 witness: the 10th decide since the last decay multiplied epsilon below
\* the minimum and the minimum replaced it, with a learn made before.
C22_Witness ==
    /\ call.op = "decide"
    /\ call.learns > 0
    /\ ~call.self.epsilon.floored
    /\ controller.epsilon = EpsilonMin
    /\ controller.step_count = 10 * FloorDecays

\* C25: FixedTimeController.decide returns duration 12 for morning, 10 for
\* afternoon, 6 for night and 10 for any other time-of-day label, with no
\* target phase, whatever number of learn calls was made before.
C25_FixedPlan ==
    (controller.name = "fixed" /\ call.op = "decide") =>
        /\ call.state.time_of_day = "morning" =>
               call.decision.duration = 12 * Resolution
        /\ call.state.time_of_day = "afternoon" =>
               call.decision.duration = 10 * Resolution
        /\ call.state.time_of_day = "night" =>
               call.decision.duration = 6 * Resolution
        /\ call.state.time_of_day \notin {"morning", "afternoon", "night"} =>
               call.decision.duration = 10 * Resolution
        /\ ~HasTarget(call.decision)

\* C25 witness: a decide for the night after two learn calls returned 6
\* seconds.
C25_Witness ==
    /\ controller.name = "fixed"
    /\ call.op = "decide"
    /\ call.learns = 2
    /\ call.state.time_of_day = "night"
    /\ call.decision.duration = 6 * Resolution

\* C26: building a controller from a name other than fixed, neural or rl
\* fails with an error and never falls back to some controller; in run_once
\* the failure comes before the arrival generator or the network is created
\* and before any log file is written.  A known name does not fail.
C26_UnknownControllerFails ==
    (run.controller_name # "none" /\ run.pc # "build_controller") =>
        IF run.controller_name \in {"fixed", "neural", "rl"}
        THEN /\ run.pc # "raised"
             /\ controller.name = run.controller_name
        ELSE /\ run.pc = "raised"
             /\ controller = NoController
             /\ ~run.generator
             /\ intersections = Empty
             /\ run.log_rows = <<>>
             /\ ~run.log_written

\* C26 witness: run_once called with a name that differs from a known one
\* only in its case has failed.
C26_Witness ==
    /\ run.controller_name = "Fixed"
    /\ run.pc = "raised"
    /\ run.intersections = 2

C28_Nudge ==
    (call.op = "decide" /\ "after" \in DOMAIN call /\ call.after = "learn") =>
        /\ call.reward10 > 0 => -1 \notin call.change
        /\ call.reward10 < 0 => 1 \notin call.change

\* C28 witness: decide, learn with reward 0.5 that turned the negative
\* w2[4] positive, decide on the same state: the duration can be higher.
C28_Witness ==
    /\ call.op = "decide"
    /\ "after" \in DOMAIN call
    /\ call.after = "learn"
    /\ call.reward10 = 5
    /\ Len(controller.memory) = 2
    /\ controller.memory[1] = controller.memory[2]
    /\ controller.w2[5] = 1
    /\ call.change = {0, 1}

\* C29: Intersection.observe_state leaves both queues and the phase as they
\* were, and the snapshot it returned still holds the queues and the phase
\* of the moment it was taken after any later Intersection.step.
C29_ObservePure ==
    call.op = "observe_state" =>
        /\ call.left = call.self
        /\ call.state.queue_ns = call.self.queue_ns
        /\ call.state.queue_ew = call.self.queue_ew
        /\ call.state.phase = call.self.phase
        /\ call.state.time_of_day = call.time_of_day
        /\ call.state.emergency = call.emergency

\* C29 witness: a snapshot taken with vehicles waiting, and a later step
\* that changed the north-south queue and the phase.
C29_Witness ==
    /\ call.op = "observe_state"
    /\ call.self.queue_ns > 0
    /\ intersections[0].queue_ns # call.state.queue_ns
    /\ intersections[0].phase # call.state.phase
    /\ before[0] # intersections[0]

\* C30: in each step of run_once every intersection is observed and decided
\* for before the network is stepped, and learn is called after the whole
\* network has been stepped: the state a decision was based on holds the
\* queues and the phase the previous step left, without this step's
\* arrivals, and the next state given to learn holds those the step left.
C30_DecideBeforeStep ==
    (run.controller_name # "none" /\ run.pc = "loop" /\ run.step > 0) =>
        \A i \in DOMAIN intersections :
            /\ run.last_states[i] =
                   Observe(before, i, raw_arrivals[i].time_of_day,
                           raw_arrivals[i].emergency)
            /\ run.next_states[i] =
                   Observe(intersections, i, raw_arrivals[i].time_of_day,
                           raw_arrivals[i].emergency)

\* C30 witness: the second step of a run over two intersections; east-west
\* vehicles were left waiting by the first step, more arrive, and the state decided
\* on differs from the state learn was given.
C30_Witness ==
    /\ run.controller_name = "rl"
    /\ run.pc = "loop"
    /\ run.step = 2
    /\ run.intersections = NumIntersections
    /\ before[0].queue_ew > 0
    /\ raw_arrivals[0].arrivals_ew > 0
    /\ run.last_states[0].queue_ew = before[0].queue_ew
    /\ run.last_states[1] # run.next_states[1]

\* C31: in the driver loop, with any number of intersections, the learn that
\* carries the reward of intersection i writes the entry of q under the key
\* and the action of the decide made for intersection i in the same step.
C31_LearnOwnDecision ==
    run.controller_name = "rl" =>
        \A i \in DOMAIN run.targets :
            /\ run.targets[i].key = run.keys[i]
            /\ run.targets[i].action * Resolution = decisions[i].duration

C33_NextKeyIsActedOn ==
    (run.controller_name = "rl" /\ run.intersections = 1) =>
        \A i \in DOMAIN run.prev_targets :
            run.prev_targets[i].next_key = run.keys[i]

\* C34: in every Intersection.step and on each approach, the queue after the
\* step is the queue before plus the arrivals minus the vehicles served on
\* that approach; on the approach without green nothing is served, so its
\* queue changes by its own arrivals only.
C34_Conservation ==
    \A i \in Stepped :
        /\ intersections[i].queue_ns =
               before[i].queue_ns + arrivals[i].arrivals_ns - logs[i].served_ns
        /\ intersections[i].queue_ew =
               before[i].queue_ew + arrivals[i].arrivals_ew - logs[i].served_ew
        /\ logs[i].phase_used = "NS" =>
               /\ logs[i].served_ew = 0
               /\ intersections[i].queue_ew = ArrivedEW(i)
        /\ logs[i].phase_used = "EW" =>
               /\ logs[i].served_ns = 0
               /\ intersections[i].queue_ns = ArrivedNS(i)

\* C34 witness: a step with arrivals on both approaches that served one
\* vehicle of the green approach and left others of it waiting, while the
\* other approach already had a queue.
C34_Witness ==
    \E i \in Stepped :
        /\ run = NoRun
        /\ logs[i].phase_used = "EW"
        /\ logs[i].served_ew = 1
        /\ intersections[i].queue_ew > 0
        /\ before[i].queue_ns > 0
        /\ arrivals[i].arrivals_ns > 0
        /\ arrivals[i].arrivals_ew > 0

\* The total queue fell by at least one vehicle over the last two steps made
\* after the arrivals stopped, if there was a vehicle when they began.
TwoStepsServe ==
    (call.op = "draining" /\ call.steps = 2 /\ call.earlier > 0) =>
        TotalQueue <= call.earlier - 1

\* C35: once arrivals have stopped, under any emergency flags and any
\* decisions without target phase that let at least one vehicle through, the
\* total queue falls by at least one vehicle in every two consecutive steps
\* while it is not zero, and both queues reach 0.
C35_Drains ==
    /\ []TwoStepsServe
    /\ (call.op = "draining") ~> (call.op = "draining" /\ TotalQueue = 0)

\* C35 witness: two steps after the arrivals stopped let exactly one vehicle
\* through: the second, without emergency, found its green approach empty
\* and served nothing, and vehicles still wait on the other approach.
C35_Witness ==
    /\ call.op = "draining"
    /\ call.steps = 2
    /\ TotalQueue = call.earlier - 1
    /\ TotalQueue > 0
    /\ logs[0].throughput = 0
    /\ ~arrivals[0].emergency

\* C36: after any sequence of QLearningController.decide and learn calls
\* every entry of the Q-table has a value for exactly the actions 10, 12 and
\* 14, no call removes a key, and last_key and last_action, once set, name
\* an existing entry and one of its actions, so the lookups of learn succeed.
C36_TableSound ==
    controller.name = "rl" =>
        /\ \A key \in DOMAIN controller.q :
               DOMAIN controller.q[key] = {10, 12, 14}
        /\ call.op # "none" => DOMAIN call.self.q \subseteq DOMAIN controller.q
        /\ HasLastKey(controller) =>
               /\ controller.last_key \in DOMAIN controller.q
               /\ controller.last_action \in DOMAIN controller.q[controller.last_key]

\* C36 witness: a learn that wrote the entry of the last decision and
\* created the entry of a next key seen for the first time, after an
\* exploring decide: two keys in the table.
C36_Witness ==
    /\ controller.name = "rl"
    /\ call.op = "learn"
    /\ HasLastKey(call.self)
    /\ call.self.last_action = 14
    /\ Cardinality(DOMAIN call.self.q) = 1
    /\ Cardinality(DOMAIN controller.q) = 2
    /\ controller.q[controller.last_key][14] # [n |-> 2, e |-> 0]

\* C37: generate_stream never divides by zero: for every steps >= 1 and
\* either value of varied_time the generator raises nothing, and when it
\* ends it has yielded one list per step, each with one arrival record per
\* intersection.
C37_StreamComplete ==
    "yielded" \in DOMAIN run =>
        /\ run.raised = "none"
        /\ run.yielded > 0 =>
               DOMAIN run.last = 0..(run.intersections - 1)
        /\ run.pc = "done" => run.yielded = run.steps

====
